---- MODULE Spec2Model ----
(***************************************************************************)
(* Model of the holiday-event-api client (src/src/lib.rs, src/src/model.rs) *)
(* as a state machine: one slot per call on a client, the three public     *)
(* operations, and the request executor split at its two await points      *)
(* (send().await and json().await).                                        *)
(***************************************************************************)
EXTENDS Integers, Sequences, FiniteSets, TLC

\* Number of calls made one after the other on the client.
MaxCalls == 2

\* ------------------------------------------------------------------------
\* Option<T> values: Some(v) and None, with a placeholder under None.

Some(v) == [some |-> TRUE, v |-> v]

NoneStr == [some |-> FALSE, v |-> ""]

NoneInt == [some |-> FALSE, v |-> 0]

NoneBool == [some |-> FALSE, v |-> FALSE]

\* Option::unwrap_or
UnwrapOr(o, d) == IF o.some THEN o.v ELSE d

\* ------------------------------------------------------------------------
\* Formatting and parsing of integers and booleans.

\* The range of i32 (RateLimit fields, start/end years).
I32Max == 2147483647

I32Min == -I32Max - 1

DigitStr(d) ==
    CASE d = 0 -> "0" [] d = 1 -> "1" [] d = 2 -> "2" [] d = 3 -> "3"
      [] d = 4 -> "4" [] d = 5 -> "5" [] d = 6 -> "6" [] d = 7 -> "7"
      [] d = 8 -> "8" [] d = 9 -> "9"

RECURSIVE NatToString(_)
NatToString(n) ==
    IF n < 10 THEN DigitStr(n) ELSE NatToString(n \div 10) \o DigitStr(n % 10)

\* i32::to_string: decimal digits, a leading "-" for negative numbers.
IntToString(n) == IF n < 0 THEN "-" \o NatToString(-n) ELSE NatToString(n)

\* bool::to_string
BoolToString(b) == IF b THEN "true" ELSE "false"

\* char::to_digit(10); -1 stands for None.
ToDigit(ch) ==
    CASE ch = "0" -> 0 [] ch = "1" -> 1 [] ch = "2" -> 2 [] ch = "3" -> 3
      [] ch = "4" -> 4 [] ch = "5" -> 5 [] ch = "6" -> 6 [] ch = "7" -> 7
      [] ch = "8" -> 8 [] ch = "9" -> 9 [] OTHER -> -1

\* The digit loop of str::parse::<i32>: checked_mul(10) then checked_add or
\* checked_sub of the digit; an invalid digit or an overflow is an error.
RECURSIVE ParseDigits(_, _, _, _)
ParseDigits(s, i, acc, positive) ==
    IF i > Len(s) THEN Some(acc)
    ELSE LET d == ToDigit(s[i])
             m == acc * 10
         IN  IF d < 0 THEN NoneInt
             ELSE IF acc > I32Max \div 10 \/ acc < -(I32Max \div 10) THEN NoneInt
             ELSE IF positive /\ d > I32Max - m THEN NoneInt
             ELSE IF ~positive /\ m < I32Min + d THEN NoneInt
             ELSE ParseDigits(s, i + 1, IF positive THEN m + d ELSE m - d, positive)

\* str::parse::<i32>().ok() on a sequence of characters: an optional sign,
\* then at least one digit.
ParseI32(s) ==
    IF Len(s) = 0 THEN NoneInt
    ELSE IF Len(s) = 1 /\ s[1] \in {"+", "-"} THEN NoneInt
    ELSE IF s[1] = "+" THEN ParseDigits(s, 2, 0, TRUE)
    ELSE IF s[1] = "-" THEN ParseDigits(s, 2, 0, FALSE)
    ELSE ParseDigits(s, 1, 0, TRUE)

\* Characters HeaderValue::to_str accepts (visible ASCII), among those used.
VisibleAscii ==
    {"0", "1", "2", "3", "4", "5", "6", "7", "8", "9", "+", "-", "a", " "}

\* HeaderValue::to_str().ok(): None when a byte is not visible ASCII.
ToStr(h) ==
    IF \A i \in 1..Len(h) : h[i] \in VisibleAscii
    THEN [some |-> TRUE, v |-> h] ELSE [some |-> FALSE, v |-> <<>>]

\* ------------------------------------------------------------------------
\* Response headers.

LimitName == "x-ratelimit-limit-month"

RemainingName == "x-ratelimit-remaining-month"

\* Header names held as they were sent.
LowerNameAsSent(n) == n

\* HeaderName normalisation: header names are held in lower case.
LowerName(n) ==
    CASE n = "X-RateLimit-Limit-Month" -> "x-ratelimit-limit-month"
      [] n = "X-RATELIMIT-LIMIT-MONTH" -> "x-ratelimit-limit-month"
      [] n = "X-RateLimit-Remaining-Month" -> "x-ratelimit-remaining-month"
      [] n = "X-RATELIMIT-REMAINING-MONTH" -> "x-ratelimit-remaining-month"
      [] n = "Content-Type" -> "content-type"
      [] n = "Location" -> "location"
      [] OTHER -> n

\* The header map of a response: the lines as sent, names normalised.
HeaderMap(lines) ==
    [i \in 1..Len(lines) |-> [name |-> LowerName(lines[i].name), value |-> lines[i].value]]

\* HeaderMap::get: the first value held under the name, if any.
HeaderGet(headers, name) ==
    LET idx == {i \in 1..Len(headers) : headers[i].name = name}
    IN  IF idx = {} THEN [some |-> FALSE, v |-> <<>>]
        ELSE [some |-> TRUE, v |-> headers[CHOOSE i \in idx : \A j \in idx : i <= j].value]

\* headers.get(name).and_then(|h| h.to_str().ok().and_then(|s| s.parse().ok())).unwrap_or(0)
HeaderInt(headers, name) ==
    LET h == HeaderGet(headers, name)
        s == IF h.some THEN ToStr(h.v) ELSE [some |-> FALSE, v |-> <<>>]
        n == IF s.some THEN ParseI32(s.v) ELSE NoneInt
    IN  UnwrapOr(n, 0)

\* The rate limit taken from the headers only when both of them parse.
RateLimitOfBothOrNone(headers) ==
    LET value(name) ==
            LET h == HeaderGet(headers, name)
                s == IF h.some THEN ToStr(h.v) ELSE [some |-> FALSE, v |-> <<>>]
            IN  IF s.some THEN ParseI32(s.v) ELSE NoneInt
    IN  IF value(LimitName).some /\ value(RemainingName).some
        THEN [limit_month |-> value(LimitName).v, remaining_month |-> value(RemainingName).v]
        ELSE [limit_month |-> 0, remaining_month |-> 0]

\* model::RateLimit built from the response headers.
RateLimitOf(headers) ==
    [limit_month |-> HeaderInt(headers, LimitName),
     remaining_month |-> HeaderInt(headers, RemainingName)]

\* RateLimit::default()
DefaultRateLimit == [limit_month |-> 0, remaining_month |-> 0]

\* ------------------------------------------------------------------------
\* HTTP status.

\* StatusCode::is_success
IsSuccess(status) == 200 <= status /\ status < 300

\* StatusCode::canonical_reason: the registered phrase, None for other codes.
CanonicalReason(status) ==
    CASE status = 200 -> Some("OK")
      [] status = 302 -> Some("Found")
      [] status = 401 -> Some("Unauthorized")
      [] status = 404 -> Some("Not Found")
      [] status = 500 -> Some("Internal Server Error")
      [] OTHER -> NoneStr

\* The status reported by its numeric code only.
StatusTextNumeric(status) == IntToString(status)

\* status.canonical_reason().unwrap_or(status.as_str())
StatusText(status) == UnwrapOr(CanonicalReason(status), IntToString(status))

\* The client is built without a redirect policy, so it has the default one:
\* up to this many redirects are followed.
RedirectLimit == 10

\* StatusCode::is_redirection, among the codes the client follows.
IsRedirect(status) == status \in {301, 302, 303, 307, 308}

\* A client that follows no redirect.
FollowsNever(status, lines) == FALSE

\* The client follows a response: a redirect status with a Location header.
Follows(status, lines) ==
    IsRedirect(status) /\ HeaderGet(HeaderMap(lines), "location").some

\* ------------------------------------------------------------------------
\* JSON bodies: a decoded JSON value, or text that is not JSON.

JStr(s) == [t |-> "str", v |-> s]

JInt(n) == [t |-> "int", v |-> n]

\* A JSON number given by its literal text, such as "-1", "1.5" or a
\* literal of twenty digits.
JNum(lit) == [t |-> "num", v |-> lit]

JBool(b) == [t |-> "bool", v |-> b]

JArr(a) == [t |-> "arr", v |-> a]

JObj(o) == [t |-> "obj", v |-> o]

JNull == [t |-> "null", v |-> 0]

\* A body such as "{" or the empty body.
JMalformed == [t |-> "malformed", v |-> 0]

DecodeOk(v) == [ok |-> TRUE, v |-> v, diag |-> ""]

DecodeErr(diag) == [ok |-> FALSE, v |-> 0, diag |-> diag]

\* A field of a JSON object that is present with the given JSON type.
Has(o, k, t) == k \in DOMAIN o /\ o[k].t = t

\* res.json::<HashMap<String, String>>(): an object whose values are all
\* strings; anything else is an error.
DecodeStringMap(body) ==
    IF body.t = "obj" /\ \A k \in DOMAIN body.v : body.v[k].t = "str"
    THEN DecodeOk([k \in DOMAIN body.v |-> body.v[k].v])
    ELSE DecodeErr("invalid type")

\* json.get("error").unwrap_or(&"".into())
ErrorEntry(map) == IF "error" \in DOMAIN map THEN map["error"] ELSE ""

\* The characters of a text, one by one.
Chars(s) == [i \in 1..Len(s) |-> SubSeq(s, i, i)]

\* The text made of the characters.
RECURSIVE Join(_)
Join(cs) == IF Len(cs) = 0 THEN "" ELSE Head(cs) \o Join(Tail(cs))

\* 64-bit values are held as decimal digits: u64::MAX, i64::MAX, 2^63, 2^64.
U64MaxDigits == Chars("18446744073709551615")

I64MaxDigits == Chars("9223372036854775807")

TwoPow63Digits == Chars("9223372036854775808")

TwoPow64Digits == Chars("18446744073709551616")

IsDigits(cs) == Len(cs) > 0 /\ \A i \in 1..Len(cs) : ToDigit(cs[i]) >= 0

RECURSIVE LexLeq(_, _, _)
LexLeq(a, b, i) ==
    IF i > Len(a) THEN TRUE
    ELSE IF ToDigit(a[i]) < ToDigit(b[i]) THEN TRUE
    ELSE IF ToDigit(a[i]) > ToDigit(b[i]) THEN FALSE
    ELSE LexLeq(a, b, i + 1)

\* a <= b for two magnitudes written without leading zeros.
MagLeq(a, b) == Len(a) < Len(b) \/ (Len(a) = Len(b) /\ LexLeq(a, b, 1))

PadZeros(a, n) == [i \in 1..n |-> IF i <= n - Len(a) THEN "0" ELSE a[i - (n - Len(a))]]

RECURSIVE SubDigits(_, _, _, _)
SubDigits(a, b, i, borrow) ==
    IF i = 0 THEN <<>>
    ELSE LET d == ToDigit(a[i]) - ToDigit(b[i]) - borrow
         IN  Append(SubDigits(a, b, i - 1, IF d < 0 THEN 1 ELSE 0),
                    DigitStr(IF d < 0 THEN d + 10 ELSE d))

RECURSIVE StripZeros(_)
StripZeros(cs) == IF Len(cs) > 1 /\ cs[1] = "0" THEN StripZeros(Tail(cs)) ELSE cs

\* a - b for two magnitudes with a >= b.
MagSub(a, b) == StripZeros(SubDigits(a, PadZeros(b, Len(a)), Len(a), 0))

\* `date as i64` on a u64: values above i64::MAX wrap around by 2^64.
AsI64(mag) ==
    IF MagLeq(mag, I64MaxDigits) THEN Join(mag)
    ELSE "-" \o Join(MagSub(TwoPow64Digits, mag))

\* The JSON parser on a number literal: a fraction, an exponent, a magnitude
\* above u64::MAX, a negative below i64::MIN and the literal -0 are floating
\* point; other negatives are i64 and the rest u64.
ParseNumber(cs) ==
    LET negative == cs[1] = "-"
        mag == IF negative THEN Tail(cs) ELSE cs
    IN  IF ~IsDigits(mag) \/ ~MagLeq(mag, U64MaxDigits) THEN [kind |-> "f64", mag |-> mag]
        ELSE IF ~negative THEN [kind |-> "u64", mag |-> mag]
        ELSE IF mag = <<"0">> \/ ~MagLeq(mag, TwoPow63Digits) THEN [kind |-> "f64", mag |-> mag]
        ELSE [kind |-> "i64", mag |-> mag]

\* The literal text of a JSON number.
Literal(j) == IF j.t = "int" THEN Chars(IntToString(j.v)) ELSE Chars(j.v)

\* DateOrTimestamp::deserialize: visit_str gives Date, visit_i64 and visit_u64
\* give Timestamp (held as its decimal text), every other visit is an error.
DecodeDate(j) ==
    CASE j.t = "str" -> DecodeOk([variant |-> "Date", date |-> j.v, ts |-> ""])
      [] j.t \in {"int", "num"} ->
            LET n == ParseNumber(Literal(j)) IN
            CASE n.kind = "i64" ->
                    DecodeOk([variant |-> "Timestamp", date |-> "", ts |-> "-" \o Join(n.mag)])
              [] n.kind = "u64" ->
                    DecodeOk([variant |-> "Timestamp", date |-> "", ts |-> AsI64(n.mag)])
              [] OTHER ->
                    DecodeErr("invalid type: floating point, expected OccurrenceDate as a number or string")
      [] OTHER -> DecodeErr("invalid type: expected OccurrenceDate as a number or string")

\* EventSummary
DecodeSummary(j) ==
    IF j.t = "obj" /\ Has(j.v, "id", "str") /\ Has(j.v, "name", "str") /\ Has(j.v, "url", "str")
    THEN DecodeOk([id |-> j.v["id"].v, name |-> j.v["name"].v, url |-> j.v["url"].v])
    ELSE DecodeErr("missing field")

\* Vec<EventSummary>
DecodeSummaries(j) ==
    IF j.t = "arr" /\ \A i \in 1..Len(j.v) : DecodeSummary(j.v[i]).ok
    THEN DecodeOk([i \in 1..Len(j.v) |-> DecodeSummary(j.v[i]).v])
    ELSE DecodeErr("invalid type")

\* GetEventsResponse with rate_limit read from the body like the other fields.
DecodeGetEventsRateLimitRead(body) ==
    IF body.t # "obj" THEN DecodeErr("EOF while parsing an object at line 1 column 1")
    ELSE LET o == body.v IN
         IF /\ Has(o, "adult", "bool")
            /\ "date" \in DOMAIN o /\ DecodeDate(o["date"]).ok
            /\ Has(o, "timezone", "str")
            /\ "events" \in DOMAIN o /\ DecodeSummaries(o["events"]).ok
            /\ "multiday_starting" \in DOMAIN o /\ DecodeSummaries(o["multiday_starting"]).ok
            /\ "multiday_ongoing" \in DOMAIN o /\ DecodeSummaries(o["multiday_ongoing"]).ok
            /\ Has(o, "rate_limit", "obj")
            /\ Has(o["rate_limit"].v, "limit_month", "int")
            /\ Has(o["rate_limit"].v, "remaining_month", "int")
         THEN DecodeOk([adult |-> o["adult"].v,
                        date |-> DecodeDate(o["date"]).v,
                        timezone |-> o["timezone"].v,
                        events |-> DecodeSummaries(o["events"]).v,
                        multiday_starting |-> DecodeSummaries(o["multiday_starting"]).v,
                        multiday_ongoing |-> DecodeSummaries(o["multiday_ongoing"]).v,
                        rate_limit |-> [limit_month |-> o["rate_limit"].v["limit_month"].v,
                                        remaining_month |-> o["rate_limit"].v["remaining_month"].v]])
         ELSE DecodeErr("missing field")

\* GetEventsResponse; rate_limit is skipped by the decoder and starts at its
\* default, fields the struct does not name are ignored.
DecodeGetEvents(body) ==
    IF body.t # "obj" THEN DecodeErr("EOF while parsing an object at line 1 column 1")
    ELSE LET o == body.v IN
         IF /\ Has(o, "adult", "bool")
            /\ "date" \in DOMAIN o /\ DecodeDate(o["date"]).ok
            /\ Has(o, "timezone", "str")
            /\ "events" \in DOMAIN o /\ DecodeSummaries(o["events"]).ok
            /\ "multiday_starting" \in DOMAIN o /\ DecodeSummaries(o["multiday_starting"]).ok
            /\ "multiday_ongoing" \in DOMAIN o /\ DecodeSummaries(o["multiday_ongoing"]).ok
         THEN DecodeOk([adult |-> o["adult"].v,
                        date |-> DecodeDate(o["date"]).v,
                        timezone |-> o["timezone"].v,
                        events |-> DecodeSummaries(o["events"]).v,
                        multiday_starting |-> DecodeSummaries(o["multiday_starting"]).v,
                        multiday_ongoing |-> DecodeSummaries(o["multiday_ongoing"]).v,
                        rate_limit |-> DefaultRateLimit])
         ELSE DecodeErr("missing field")

\* The optional groups of EventInfo.
OptionalGroups ==
    {"hashtags", "image", "sources", "description", "how_to_observe",
     "patterns", "occurrences", "founders", "analytics", "tags"}

\* Option::None of a decoded field.
None == [some |-> FALSE]

\* The types of the fields of the derived decoders.
TString == [k |-> "String"]

TBool == [k |-> "bool"]

TI32 == [k |-> "i32"]

TDateOrTimestamp == [k |-> "DateOrTimestamp"]

TOption(t) == [k |-> "Option", of |-> t]

TVec(t) == [k |-> "Vec", of |-> t]

TStruct(name) == [k |-> "struct", name |-> name]

\* The fields of the structs with #[derive(Deserialize)].
StructFields(name) ==
    CASE name = "EventInfo" ->
            [id |-> TString, name |-> TString, url |-> TString, adult |-> TBool,
             alternate_names |-> TVec(TStruct("AlternateName")),
             hashtags |-> TOption(TVec(TString)),
             image |-> TOption(TStruct("ImageInfo")),
             sources |-> TOption(TVec(TString)),
             description |-> TOption(TStruct("RichText")),
             how_to_observe |-> TOption(TStruct("RichText")),
             patterns |-> TOption(TVec(TStruct("Pattern"))),
             occurrences |-> TOption(TVec(TStruct("Occurrence"))),
             founders |-> TOption(TVec(TStruct("FounderInfo"))),
             analytics |-> TOption(TStruct("Analytics")),
             tags |-> TOption(TVec(TStruct("Tag")))]
      [] name = "Pattern" ->
            [first_year |-> TOption(TI32), last_year |-> TOption(TI32),
             observed |-> TString, observed_html |-> TString,
             observed_markdown |-> TString, length |-> TI32]
      [] name = "Occurrence" -> [date |-> TDateOrTimestamp, length |-> TI32]
      [] name = "AlternateName" ->
            [name |-> TString, first_year |-> TOption(TI32), last_year |-> TOption(TI32)]
      [] name = "RichText" ->
            [text |-> TOption(TString), html |-> TOption(TString), markdown |-> TOption(TString)]
      [] name = "ImageInfo" -> [small |-> TString, medium |-> TString, large |-> TString]
      [] name = "FounderInfo" ->
            [name |-> TString, url |-> TOption(TString), date |-> TOption(TString)]
      [] name = "Analytics" ->
            [overall_rank |-> TI32, social_rank |-> TI32, social_shares |-> TI32,
             popularity |-> TString]
      [] name = "Tag" -> [name |-> TString]

\* A key that is not in the object is an error for every field.
MissingFieldStrict(t) == DecodeErr("missing field")

\* A key that is not in the object: None for an Option field, an error for
\* the others.
MissingField(t) == IF t.k = "Option" THEN DecodeOk(None) ELSE DecodeErr("missing field")

\* i32 from a JSON number: an integer literal within the range of i32.
DecodeI32(j) ==
    IF j.t \notin {"int", "num"} THEN DecodeErr("invalid type")
    ELSE IF ParseNumber(Literal(j)).kind = "f64" THEN DecodeErr("invalid type: floating point")
    ELSE LET n == ParseI32(Literal(j))
         IN  IF n.some THEN DecodeOk(n.v) ELSE DecodeErr("invalid value")

\* The derived decoders: a value of type t from the JSON value j. Keys of an
\* object that the struct does not name are ignored; the first field or item
\* that fails is the error of the whole.
RECURSIVE Decode(_, _), DecodeItems(_, _, _), DecodeFields(_, _, _)
Decode(t, j) ==
    CASE t.k = "String" -> IF j.t = "str" THEN DecodeOk(j.v) ELSE DecodeErr("invalid type")
      [] t.k = "bool" -> IF j.t = "bool" THEN DecodeOk(j.v) ELSE DecodeErr("invalid type")
      [] t.k = "i32" -> DecodeI32(j)
      [] t.k = "DateOrTimestamp" -> DecodeDate(j)
      [] t.k = "Option" ->
            IF j.t = "null" THEN DecodeOk(None)
            ELSE LET r == Decode(t.of, j) IN IF r.ok THEN DecodeOk(Some(r.v)) ELSE r
      [] t.k = "Vec" ->
            IF j.t # "arr" THEN DecodeErr("invalid type") ELSE DecodeItems(t.of, j.v, Len(j.v))
      [] t.k = "struct" ->
            IF j.t # "obj" THEN DecodeErr("invalid type")
            ELSE DecodeFields(StructFields(t.name), j.v, DOMAIN StructFields(t.name))

\* The first n items of a JSON array, each of type t.
DecodeItems(t, a, n) ==
    IF n = 0 THEN DecodeOk(<<>>)
    ELSE LET front == DecodeItems(t, a, n - 1)
             item == Decode(t, a[n])
         IN  IF ~front.ok THEN front
             ELSE IF ~item.ok THEN item
             ELSE DecodeOk(Append(front.v, item.v))

\* The fields keys of a struct with fields f from the JSON object o.
DecodeFields(f, o, keys) ==
    IF keys = {} THEN DecodeOk(<<>>)
    ELSE LET k == CHOOSE x \in keys : TRUE
             field == IF k \in DOMAIN o THEN Decode(f[k], o[k]) ELSE MissingField(f[k])
             rest == DecodeFields(f, o, keys \ {k})
         IN  IF ~field.ok THEN field
             ELSE IF ~rest.ok THEN rest
             ELSE DecodeOk((k :> field.v) @@ rest.v)

\* EventInfo
DecodeEventInfo(j) == Decode(TStruct("EventInfo"), j)

\* GetEventInfoResponse
DecodeGetEventInfo(body) ==
    IF body.t # "obj" THEN DecodeErr("EOF while parsing an object at line 1 column 1")
    ELSE IF "event" \in DOMAIN body.v /\ DecodeEventInfo(body.v["event"]).ok
    THEN DecodeOk([event |-> DecodeEventInfo(body.v["event"]).v, rate_limit |-> DefaultRateLimit])
    ELSE DecodeErr("missing field")

\* SearchResponse
DecodeSearch(body) ==
    IF body.t # "obj" THEN DecodeErr("EOF while parsing an object at line 1 column 1")
    ELSE LET o == body.v IN
         IF /\ Has(o, "query", "str") /\ Has(o, "adult", "bool")
            /\ "events" \in DOMAIN o /\ DecodeSummaries(o["events"]).ok
         THEN DecodeOk([query |-> o["query"].v, adult |-> o["adult"].v,
                        events |-> DecodeSummaries(o["events"]).v,
                        rate_limit |-> DefaultRateLimit])
         ELSE DecodeErr("missing field")

\* res.json::<T>() for the response type T of the operation.
DecodeResponse(op, body) ==
    CASE op = "get_events" -> DecodeGetEvents(body)
      [] op = "get_event_info" -> DecodeGetEventInfo(body)
      [] op = "search" -> DecodeSearch(body)

\* RateLimited::set_rate_limit, the same for the three response types.
SetRateLimit(response, rate_limit) == [response EXCEPT !.rate_limit = rate_limit]

\* ------------------------------------------------------------------------
\* Parameter encoding of the three operations (HashMap<String, String>).

\* get_events with every key sent, an unset one with an empty value.
GetEventsParamsAllKeys(request) ==
    [k \in {"adult", "timezone", "date"} |->
        CASE k = "adult" -> BoolToString(UnwrapOr(request.adult, FALSE))
          [] k = "timezone" -> UnwrapOr(request.timezone, "")
          [] k = "date" -> UnwrapOr(request.date, "")]

\* get_events: adult always, timezone and date when supplied.
GetEventsParams(request) ==
    LET p0 == [k \in {"adult"} |-> BoolToString(UnwrapOr(request.adult, FALSE))]
        p1 == IF request.timezone.some THEN ("timezone" :> request.timezone.v) @@ p0 ELSE p0
    IN  IF request.date.some THEN ("date" :> request.date.v) @@ p1 ELSE p1

\* get_event_info without the check of the id.
IdMissingUnchecked(request) == FALSE

\* get_event_info: request.id.is_empty()
IdMissing(request) == request.id = ""

\* get_event_info with end sent under the key of start.
GetEventInfoParamsEndAsStart(request) ==
    LET p0 == [k \in {"id"} |-> request.id]
        p1 == IF request.start.some THEN ("start" :> IntToString(request.start.v)) @@ p0 ELSE p0
    IN  IF request.end.some THEN ("start" :> IntToString(request.end.v)) @@ p1 ELSE p1

\* get_event_info: id, start and end when supplied.
GetEventInfoParams(request) ==
    LET p0 == [k \in {"id"} |-> request.id]
        p1 == IF request.start.some THEN ("start" :> IntToString(request.start.v)) @@ p0 ELSE p0
    IN  IF request.end.some THEN ("end" :> IntToString(request.end.v)) @@ p1 ELSE p1

\* search without the check of the query.
QueryMissingUnchecked(request) == FALSE

\* search: request.query.is_empty()
QueryMissing(request) == request.query = ""

\* search with adult sent only when the caller set it.
SearchParamsAdultOptional(request) ==
    LET p0 == [k \in {"query"} |-> request.query]
    IN  IF request.adult.some THEN ("adult" :> BoolToString(request.adult.v)) @@ p0 ELSE p0

\* search: query and adult.
SearchParams(request) ==
    [k \in {"query", "adult"} |->
        IF k = "query" THEN request.query
        ELSE BoolToString(UnwrapOr(request.adult, FALSE))]

\* ------------------------------------------------------------------------
\* The error of a non-success status, and the value of a success.

\* The error of a non-success status with the body left unread.
HttpErrorBodyUnread(status, json) == StatusText(status)

\* The API's error message when the body is a string map with a non-empty
\* "error" entry, otherwise the reason phrase or the numeric code.
HttpError(status, json) ==
    IF ~json.ok \/ ErrorEntry(json.v) = ""
    THEN StatusText(status)
    ELSE json.v["error"]

\* ------------------------------------------------------------------------
\* URLs: Url::parse and Url::join, for texts without dot segments, escapes,
\* user names and back slashes.

Alpha ==
    {"a", "b", "c", "d", "e", "f", "g", "h", "i", "j", "k", "l", "m", "n", "o",
     "p", "q", "r", "s", "t", "u", "v", "w", "x", "y", "z"}

\* The schemes with a host: a missing path is "/", an empty host an error.
SpecialSchemes == {"http", "https", "ws", "wss", "ftp"}

\* The first position from i on that holds one of the characters, or
\* Len(cs) + 1.
RECURSIVE IndexOf(_, _, _)
IndexOf(cs, set, i) ==
    IF i > Len(cs) THEN i ELSE IF cs[i] \in set THEN i ELSE IndexOf(cs, set, i + 1)

\* The number of slashes a text begins with.
RECURSIVE LeadingSlashes(_)
LeadingSlashes(cs) ==
    IF Len(cs) > 0 /\ cs[1] = "/" THEN 1 + LeadingSlashes(Tail(cs)) ELSE 0

\* The segments of a path: the texts between its slashes, after the first.
RECURSIVE Segments(_)
Segments(cs) ==
    IF Len(cs) = 0 THEN <<>>
    ELSE LET e == IndexOf(cs, {"/"}, 2)
         IN  <<Join(SubSeq(cs, 2, e - 1))>> \o Segments(SubSeq(cs, e, Len(cs)))

UrlErr == [ok |-> FALSE, v |-> [scheme |-> "", host |-> "", path |-> <<>>, query |-> None,
                                 cannot_be_a_base |-> FALSE]]

UrlOk(u) == [ok |-> TRUE, v |-> u]

\* What follows the scheme and its colon, for a URL with an authority or a
\* path: host up to the path, path up to the query, query up to the fragment.
ParseHierarchical(scheme, rest) ==
    LET special == scheme \in SpecialSchemes
        slashes == LeadingSlashes(rest)
        hasHost == special \/ slashes >= 2
        skip == IF special THEN slashes ELSE IF slashes >= 2 THEN 2 ELSE 0
        afterHost == SubSeq(rest, skip + 1, Len(rest))
        hostEnd == IF hasHost THEN IndexOf(afterHost, {"/", "?", "#"}, 1) ELSE 1
        host == Join(SubSeq(afterHost, 1, hostEnd - 1))
        tail == SubSeq(afterHost, hostEnd, Len(afterHost))
        pathEnd == IndexOf(tail, {"?", "#"}, 1)
        pathText == SubSeq(tail, 1, pathEnd - 1)
        queryEnd == IndexOf(tail, {"#"}, pathEnd)
    IN  IF special /\ host = "" THEN UrlErr
        ELSE UrlOk([scheme |-> scheme, host |-> host,
                    path |-> IF Len(pathText) = 0
                             THEN (IF special THEN <<"">> ELSE <<>>)
                             ELSE Segments(pathText),
                    query |-> IF pathEnd <= Len(tail) /\ tail[pathEnd] = "?"
                              THEN Some(Join(SubSeq(tail, pathEnd + 1, queryEnd - 1)))
                              ELSE None,
                    cannot_be_a_base |-> FALSE])

\* Url::parse: a text without a scheme is a relative URL and an error; a
\* scheme that is followed neither by a host nor by a slash gives a URL that
\* cannot be a base.
ParseUrl(s) ==
    LET cs == Chars(s)
        colon == IndexOf(cs, {":"}, 1)
        scheme == Join(SubSeq(cs, 1, colon - 1))
        rest == SubSeq(cs, colon + 1, Len(cs))
    IN  IF colon > Len(cs) \/ colon = 1 \/ \E i \in 1..(colon - 1) : cs[i] \notin Alpha
        THEN UrlErr
        ELSE IF scheme \notin SpecialSchemes /\ (Len(rest) = 0 \/ rest[1] # "/")
        THEN UrlOk([scheme |-> scheme, host |-> "", path |-> <<Join(rest)>>, query |-> None,
                    cannot_be_a_base |-> TRUE])
        ELSE ParseHierarchical(scheme, rest)

\* Url::join with a path of one segment: the segment takes the place of the
\* last segment of the base, the query of the base is dropped; a base that
\* cannot be a base is an error.
UrlJoin(base, path) ==
    IF base.cannot_be_a_base THEN UrlErr
    ELSE UrlOk([base EXCEPT !.path = SubSeq(base.path, 1, Len(base.path) - 1) \o <<path>>,
                            !.query = None])

\* The text of a path.
RECURSIVE PathText(_)
PathText(segs) == IF Len(segs) = 0 THEN "" ELSE "/" \o Head(segs) \o PathText(Tail(segs))

\* ------------------------------------------------------------------------
\* The client: HolidayEventApi::new and new_internal.

\* APP_USER_AGENT: "HolidayApiRust/" and the version of the package.
CargoPkgVersion == "<CARGO_PKG_VERSION>"

APP_USER_AGENT == "HolidayApiRust/" \o CargoPkgVersion

\* rustc_version_runtime::version().to_string()
RustcVersion == "<rustc version>"

\* The base URL of HolidayEventApi::new.
DefaultBaseUrl == "https://api.apilayer.com/checkiday/"

ApiKeyError ==
    "Please provide a valid API key. Get one at https://apilayer.com/marketplace/checkiday-api#pricing."

\* Control characters, among the characters used; the tab is not one of them
\* for a header value.
ControlChars == {"\n", "\r", "\f"}

\* HeaderValue::try_from(&str): every byte is a tab or is not a control
\* character; the empty text is a header value.
HeaderValueTryFrom(text) ==
    [ok |-> \A i \in 1..Len(text) : SubSeq(text, i, i) \notin ControlChars, v |-> text]

\* No client: before construction.
NoClient ==
    [state |-> "none", err |-> "", headers |-> <<>>, user_agent |-> "", timeout |-> 0,
     base_url |-> UrlErr.v, api_key |-> "", base_text |-> ""]

ClientErr(api_key, base_url, msg) ==
    [NoClient EXCEPT !.state = "err", !.err = msg, !.api_key = api_key, !.base_text = base_url]

\* new_internal without the test for an empty key.
NewInternalEmptyKeyAccepted(api_key, base_url, built) ==
    IF ~HeaderValueTryFrom(api_key).ok THEN ClientErr(api_key, base_url, ApiKeyError)
    ELSE IF ~built THEN ClientErr(api_key, base_url, "Error instantiating client.")
    ELSE IF ~ParseUrl(base_url).ok THEN ClientErr(api_key, base_url, "Invalid base_url.")
    ELSE [state |-> "ok", err |-> "",
          headers |-> [h \in {"apikey", "x-platform-version"} |->
                          IF h = "apikey" THEN HeaderValueTryFrom(api_key).v ELSE RustcVersion],
          user_agent |-> APP_USER_AGENT, timeout |-> 10,
          base_url |-> ParseUrl(base_url).v, api_key |-> api_key, base_text |-> base_url]

\* new_internal: the key is tested, the headers and the transport are built
\* (built tells whether Client::builder()...build() succeeds), then the base
\* URL is parsed. api_key and base_text keep the arguments.
NewInternal(api_key, base_url, built) ==
    IF api_key = "" \/ ~HeaderValueTryFrom(api_key).ok
    THEN ClientErr(api_key, base_url, ApiKeyError)
    ELSE IF ~built THEN ClientErr(api_key, base_url, "Error instantiating client.")
    ELSE IF ~ParseUrl(base_url).ok THEN ClientErr(api_key, base_url, "Invalid base_url.")
    ELSE [state |-> "ok", err |-> "",
          headers |-> [h \in {"apikey", "x-platform-version"} |->
                          IF h = "apikey" THEN HeaderValueTryFrom(api_key).v ELSE RustcVersion],
          user_agent |-> APP_USER_AGENT, timeout |-> 10,
          base_url |-> ParseUrl(base_url).v, api_key |-> api_key, base_text |-> base_url]

Ok(value) == [kind |-> "ok", err |-> "", value |-> value]

Err(msg) == [kind |-> "err", err |-> msg, value |-> JNull]

NoResult == [kind |-> "none", err |-> "", value |-> JNull]

NoRequest ==
    [path |-> "", params |-> <<>>, client |-> "", method |-> "", url |-> UrlErr.v,
     headers |-> <<>>, user_agent |-> ""]

\* Nothing received: no status, no transport error, no redirect followed.
NoWire == [status |-> 0, lines |-> <<>>, body |-> JNull, error |-> "", hops |-> 0]

\* The transport error reported without the prefix.
TransportErrorBare(e) == e

\* format!("Can't process request: {}", e)
TransportError(e) == "Can't process request: " \o e

\* The decode failure reported with the prefix of the transport error.
ParseErrorAsTransport(e) == "Can't process request: " \o e

\* format!("Can't parse response: {}", e), e being the error of json::<T>().
ParseError(e) == "Can't parse response: " \o e

\* The error of json::<T>(): the decoder's diagnostic under reqwest's heading.
JsonError(diag) == "error decoding response body: " \o diag

\* The steps of the second half of request() with the rate limit set on
\* every path.
OkStepsAlwaysSet(ok) == <<"decode", "set_rate_limit", "return">>

\* The steps of request() after the body of a success status arrived: the
\* decode, then either the early return or set_rate_limit and the return.
OkSteps(ok) ==
    IF ok THEN <<"decode", "set_rate_limit", "return">> ELSE <<"decode", "return">>

NoReq == [none |-> TRUE]

\* ------------------------------------------------------------------------
\* Inputs: what callers pass and what the network answers.

OptBools == {NoneBool, Some(TRUE), Some(FALSE)}

GetEventsRequests ==
    [date : {NoneStr, Some(""), Some("now")},
     adult : OptBools,
     timezone : {NoneStr, Some("America/New_York")}]

GetEventInfoRequests ==
    [id : {"", "f90b893ea04939d7456f30c54f68d7b4"},
     start : {NoneInt, Some(2002), Some(-1)},
     end : {NoneInt, Some(2003)}]

SearchRequests == [query : {"", "zucchini"}, adult : OptBools]

Statuses == {200, 401, 500, 599}

TransportErrors ==
    {"error sending request for url (http://localhost/events?adult=false): error trying to connect: tcp connect error: Connection refused (os error 61)",
     "error sending request for url (http://localhost/events?adult=false): error trying to connect: tcp connect error: Connection refused (os error 111)",
     "error sending request for url (http://localhost/events?adult=false): operation timed out"}

\* The transport error of a redirect chain longer than the policy allows.
TooManyRedirects ==
    "error following redirect for url (http://localhost/redirected): too many redirects"

\* Lines a server may send for the monthly limit.
LimitLines ==
    {[name |-> "x-ratelimit-limit-month", value |-> <<"1", "0", "0">>],
     [name |-> "X-RateLimit-Limit-Month", value |-> <<"1", "0", "0">>],
     [name |-> "x-ratelimit-limit-month", value |-> <<"-", "5">>],
     [name |-> "X-RATELIMIT-LIMIT-MONTH", value |-> <<"2", "1", "4", "7", "4", "8", "3", "6", "4", "8">>],
     [name |-> "x-ratelimit-limit-month", value |-> <<"1", "2", "a">>],
     [name |-> "x-ratelimit-limit-month", value |-> <<>>],
     [name |-> "X-RateLimit-Limit-Month", value |-> <<"1", "é">>]}

\* Lines a server may send for the monthly remainder.
RemainingLines ==
    {[name |-> "x-ratelimit-remaining-month", value |-> <<"8", "8">>],
     [name |-> "X-RATELIMIT-REMAINING-MONTH", value |-> <<"8", "8">>],
     [name |-> "X-RateLimit-Remaining-Month", value |-> <<"+", "7">>],
     [name |-> "x-ratelimit-remaining-month", value |-> <<"2", "1", "4", "7", "4", "8", "3", "6", "4", "7">>],
     [name |-> "x-ratelimit-remaining-month", value |-> <<"-", "2", "1", "4", "7", "4", "8", "3", "6", "4", "9">>],
     [name |-> "x-ratelimit-remaining-month", value |-> <<"8", " ", "8">>],
     [name |-> "x-ratelimit-remaining-month", value |-> <<"-">>]}

\* The header lines of a response: at most one line for each of the two.
HeaderLines ==
    {l \o r : l \in {<<>>} \cup {<<x>> : x \in LimitLines},
              r \in {<<>>} \cup {<<x>> : x \in RemainingLines}}

SummaryJson ==
    JObj([id |-> JStr("b80630ae75c35f34c0526173dd999cfc"),
          name |-> JStr("Cinco de Mayo"),
          url |-> JStr("https://www.checkiday.com/b80630ae75c35f34c0526173dd999cfc/cinco-de-mayo")])

EventsBody ==
    JObj([adult |-> JBool(FALSE), date |-> JStr("05/05/2025"),
          timezone |-> JStr("America/Chicago"),
          events |-> JArr(<<SummaryJson>>),
          multiday_starting |-> JArr(<<>>),
          multiday_ongoing |-> JArr(<<SummaryJson>>)])

EventInfoBody ==
    JObj([event |->
        JObj([id |-> JStr("f90b893ea04939d7456f30c54f68d7b4"),
              name |-> JStr("International Talk Like a Pirate Day"),
              url |-> JStr("https://www.checkiday.com/f90b893ea04939d7456f30c54f68d7b4/international-talk-like-a-pirate-day"),
              adult |-> JBool(FALSE),
              alternate_names |-> JArr(<<>>),
              hashtags |-> JArr(<<JStr("TalkLikeAPirateDay")>>)])])

SearchBody ==
    JObj([query |-> JStr("zucchini"), adult |-> JBool(TRUE),
          events |-> JArr(<<SummaryJson>>)])

\* The bodies a server may send.
Bodies ==
    <<JMalformed,
      JObj([error |-> JStr("MyError!")]),
      JObj([error |-> JStr("")]),
      JObj([message |-> JStr("Oops")]),
      JObj([error |-> JStr("MyError!"), code |-> JInt(401)]),
      JObj([error |-> JObj([message |-> JStr("MyError!")])]),
      EventsBody, EventInfoBody, SearchBody>>

\* ------------------------------------------------------------------------
\* State.

VARIABLES
    pc,       \* slot -> "idle", "send", "err_body", "ok_body", "done" or "panicked"
    op,       \* slot -> the operation called
    req,      \* slot -> the caller's request
    sent,     \* slot -> the network request issued by the call
    nsent,    \* slot -> how many network requests the call has issued
    wire,     \* slot -> what the server answered: status, header lines, body
    headers,  \* slot -> the header map captured on a success status
    result,   \* slot -> the value the call returned
    steps,    \* slot -> the steps the call has executed, in order
    ncalls,   \* calls started so far
    client    \* client -> its configuration, or the error of its construction

vars == <<pc, op, req, sent, nsent, wire, headers, result, steps, ncalls, client>>

Slots == {"a"}

\* The clients that are constructed.
Built == {k \in DOMAIN client : client[k].state = "ok"}

\* One client, as the tests build it against their server.
Init ==
    /\ client = [k \in {"k1"} |-> NewInternal("abc123", "http://localhost", TRUE)]
    /\ pc = [c \in Slots |-> "idle"]
    /\ op = [c \in Slots |-> ""]
    /\ req = [c \in Slots |-> NoReq]
    /\ sent = [c \in Slots |-> NoRequest]
    /\ nsent = [c \in Slots |-> 0]
    /\ wire = [c \in Slots |-> NoWire]
    /\ headers = [c \in Slots |-> <<>>]
    /\ result = [c \in Slots |-> NoResult]
    /\ steps = [c \in Slots |-> <<>>]
    /\ ncalls = 0

\* A call starts: the caller's request is recorded, nothing is sent yet.
Start(c, name, request) ==
    /\ pc[c] = "idle"
    /\ Built # {}
    /\ ncalls < MaxCalls
    /\ ncalls' = ncalls + 1
    /\ op' = [op EXCEPT ![c] = name]
    /\ req' = [req EXCEPT ![c] = request]
    /\ UNCHANGED <<wire, headers, client>>

\* request(), up to send().await: the GET for path and params is issued.
\* The request carries the headers of any constructed client.
RequestAnyHeaders(c, path, params) ==
    \E k \in Built, other \in Built :
        LET url == UrlJoin(client[k].base_url, path) IN
        /\ IF url.ok
           THEN /\ sent' = [sent EXCEPT ![c] =
                        [path |-> path, params |-> params, client |-> k, method |-> "GET",
                         url |-> [url.v EXCEPT !.query = [some |-> TRUE, v |-> params]],
                         headers |-> client[other].headers,
                         user_agent |-> client[other].user_agent]]
                /\ nsent' = [nsent EXCEPT ![c] = @ + 1]
                /\ pc' = [pc EXCEPT ![c] = "send"]
                /\ steps' = [steps EXCEPT ![c] = <<"send">>]
           ELSE /\ pc' = [pc EXCEPT ![c] = "panicked"]
                /\ steps' = [steps EXCEPT ![c] = <<"panic">>]
                /\ UNCHANGED <<sent, nsent>>
        /\ UNCHANGED result

\* The URL is the base URL of the client joined with path, with params as
\* its query; when the join fails, unwrap() panics and the call never returns.
Request(c, path, params) ==
    \E k \in Built :
        LET url == UrlJoin(client[k].base_url, path) IN
        /\ IF url.ok
           THEN /\ sent' = [sent EXCEPT ![c] =
                        [path |-> path, params |-> params, client |-> k, method |-> "GET",
                         url |-> [url.v EXCEPT !.query = [some |-> TRUE, v |-> params]],
                         headers |-> client[k].headers,
                         user_agent |-> client[k].user_agent]]
                /\ nsent' = [nsent EXCEPT ![c] = @ + 1]
                /\ pc' = [pc EXCEPT ![c] = "send"]
                /\ steps' = [steps EXCEPT ![c] = <<"send">>]
           ELSE /\ pc' = [pc EXCEPT ![c] = "panicked"]
                /\ steps' = [steps EXCEPT ![c] = <<"panic">>]
                /\ UNCHANGED <<sent, nsent>>
        /\ UNCHANGED result

\* An operation returns without calling request().
Fail(c, msg) ==
    /\ result' = [result EXCEPT ![c] = Err(msg)]
    /\ pc' = [pc EXCEPT ![c] = "done"]
    /\ steps' = [steps EXCEPT ![c] = <<"return">>]
    /\ UNCHANGED <<sent, nsent>>

\* HolidayEventApi::new_internal(api_key, base_url) for the client k; nothing
\* is sent and no call is touched.
Construct(k, api_key, base_url, built) ==
    /\ client[k].state = "none"
    /\ client' = [client EXCEPT ![k] = NewInternal(api_key, base_url, built)]
    /\ UNCHANGED <<pc, op, req, sent, nsent, wire, headers, result, steps, ncalls>>

\* HolidayEventApi::new(api_key)
New(k, api_key, built) == Construct(k, api_key, DefaultBaseUrl, built)

GetEvents(c, request) ==
    /\ Start(c, "get_events", request)
    /\ Request(c, "events", GetEventsParams(request))

GetEventInfo(c, request) ==
    /\ Start(c, "get_event_info", request)
    /\ IF IdMissing(request)
       THEN Fail(c, "Event id is required.")
       ELSE Request(c, "event", GetEventInfoParams(request))

Search(c, request) ==
    /\ Start(c, "search", request)
    /\ IF QueryMissing(request)
       THEN Fail(c, "Search query is required.")
       ELSE Request(c, "search", SearchParams(request))

\* send().await fails and the request is issued again.
SendFailsRetry(c, e) ==
    /\ pc[c] = "send"
    /\ nsent[c] < 3
    /\ nsent' = [nsent EXCEPT ![c] = @ + 1]
    /\ steps' = [steps EXCEPT ![c] = Append(@, "send")]
    /\ UNCHANGED <<pc, op, req, sent, wire, headers, result, ncalls, client>>

\* send().await fails: a transport error.
SendFails(c, e) ==
    /\ pc[c] = "send"
    /\ wire' = [wire EXCEPT ![c].error = e]
    /\ result' = [result EXCEPT ![c] = Err(TransportError(e))]
    /\ pc' = [pc EXCEPT ![c] = "done"]
    /\ steps' = [steps EXCEPT ![c] = Append(@, "return")]
    /\ UNCHANGED <<op, req, sent, nsent, headers, ncalls, client>>

\* send().await gives a response and the response value is built from the
\* headers at once, before the body is there.
SendOkEarlyResult(c, status, lines) ==
    /\ pc[c] = "send"
    /\ wire' = [wire EXCEPT ![c].status = status, ![c].lines = lines]
    /\ IF ~IsSuccess(status)
       THEN /\ pc' = [pc EXCEPT ![c] = "err_body"]
            /\ UNCHANGED <<headers, result>>
       ELSE /\ pc' = [pc EXCEPT ![c] = "ok_body"]
            /\ headers' = [headers EXCEPT ![c] = HeaderMap(lines)]
            /\ result' = [result EXCEPT ![c] = Ok([rate_limit |-> RateLimitOf(HeaderMap(lines))])]
    /\ steps' = [steps EXCEPT ![c] = Append(@, "status")]
    /\ UNCHANGED <<op, req, sent, nsent, ncalls, client>>

\* send().await gives a response: the status is classified, and on a success
\* status the headers are captured; the body is awaited next.
SendOk(c, status, lines) ==
    /\ pc[c] = "send"
    /\ ~Follows(status, lines)
    /\ wire' = [wire EXCEPT ![c].status = status, ![c].lines = lines]
    /\ IF ~IsSuccess(status)
       THEN /\ pc' = [pc EXCEPT ![c] = "err_body"]
            /\ UNCHANGED headers
       ELSE /\ pc' = [pc EXCEPT ![c] = "ok_body"]
            /\ headers' = [headers EXCEPT ![c] = HeaderMap(lines)]
    /\ steps' = [steps EXCEPT ![c] = Append(@, "status")]
    /\ UNCHANGED <<op, req, sent, nsent, result, ncalls, client>>

\* Inside send().await the answer is a redirect: the client requests the
\* target itself, or gives up when the policy's limit is reached; the call has
\* not resumed.
Redirect(c, status, lines) ==
    /\ pc[c] = "send"
    /\ Follows(status, lines)
    /\ IF wire[c].hops < RedirectLimit
       THEN /\ wire' = [wire EXCEPT ![c].hops = @ + 1]
            /\ steps' = [steps EXCEPT ![c] = Append(@, "redirect")]
            /\ UNCHANGED <<pc, result>>
       ELSE /\ wire' = [wire EXCEPT ![c].error = TooManyRedirects]
            /\ result' = [result EXCEPT ![c] = Err(TransportError(TooManyRedirects))]
            /\ pc' = [pc EXCEPT ![c] = "done"]
            /\ steps' = [steps EXCEPT ![c] = Append(@, "return")]
    /\ UNCHANGED <<op, req, sent, nsent, headers, ncalls, client>>

\* The body of a non-success status is decoded as the response of the
\* operation first, and the status matters only when that fails.
ErrBodyDecodeFirst(c, body) ==
    /\ pc[c] = "err_body"
    /\ wire' = [wire EXCEPT ![c].body = body]
    /\ LET json == DecodeResponse(op[c], body) IN
       /\ result' = [result EXCEPT ![c] =
              IF json.ok
              THEN Ok(SetRateLimit(json.v, RateLimitOf(HeaderMap(wire[c].lines))))
              ELSE Err(HttpError(wire[c].status, DecodeStringMap(body)))]
       /\ steps' = [steps EXCEPT ![c] =
              @ \o (IF json.ok THEN OkSteps(TRUE) ELSE <<"decode_error", "return">>)]
    /\ pc' = [pc EXCEPT ![c] = "done"]
    /\ UNCHANGED <<op, req, sent, nsent, headers, ncalls, client>>

\* json::<HashMap<String, String>>().await on a non-success status.
ErrBody(c, body) ==
    /\ pc[c] = "err_body"
    /\ wire' = [wire EXCEPT ![c].body = body]
    /\ result' = [result EXCEPT ![c] = Err(HttpError(wire[c].status, DecodeStringMap(body)))]
    /\ pc' = [pc EXCEPT ![c] = "done"]
    /\ steps' = [steps EXCEPT ![c] = @ \o <<"decode_error", "return">>]
    /\ UNCHANGED <<op, req, sent, nsent, headers, ncalls, client>>

\* The call is suspended once more between the decode of a valid body and
\* the attachment of the rate limit.
OkBodySuspendsAfterDecode(c, body) ==
    /\ pc[c] = "ok_body"
    /\ wire' = [wire EXCEPT ![c].body = body]
    /\ LET json == DecodeResponse(op[c], body) IN
       IF json.ok /\ steps[c][Len(steps[c])] = "status"
       THEN /\ steps' = [steps EXCEPT ![c] = Append(@, "decode")]
            /\ UNCHANGED <<pc, result>>
       ELSE /\ result' = [result EXCEPT ![c] =
                   IF ~json.ok THEN Err(ParseError(JsonError(json.diag)))
                   ELSE Ok(SetRateLimit(json.v, RateLimitOf(headers[c])))]
            /\ steps' = [steps EXCEPT ![c] = @ \o <<"set_rate_limit", "return">>]
            /\ pc' = [pc EXCEPT ![c] = "done"]
    /\ UNCHANGED <<op, req, sent, nsent, headers, ncalls, client>>

\* json::<T>().await on a success status, then the rate limit is attached.
OkBody(c, body) ==
    /\ pc[c] = "ok_body"
    /\ wire' = [wire EXCEPT ![c].body = body]
    /\ LET json == DecodeResponse(op[c], body) IN
       /\ result' = [result EXCEPT ![c] =
              IF ~json.ok THEN Err(ParseError(JsonError(json.diag)))
              ELSE Ok(SetRateLimit(json.v, RateLimitOf(headers[c])))]
       /\ steps' = [steps EXCEPT ![c] = @ \o OkSteps(json.ok)]
    /\ pc' = [pc EXCEPT ![c] = "done"]
    /\ UNCHANGED <<op, req, sent, nsent, headers, ncalls, client>>

\* The caller takes the result; the slot is free for the next call.
Return(c) ==
    /\ pc[c] = "done"
    /\ pc' = [pc EXCEPT ![c] = "idle"]
    /\ op' = [op EXCEPT ![c] = ""]
    /\ req' = [req EXCEPT ![c] = NoReq]
    /\ sent' = [sent EXCEPT ![c] = NoRequest]
    /\ nsent' = [nsent EXCEPT ![c] = 0]
    /\ wire' = [wire EXCEPT ![c] = NoWire]
    /\ headers' = [headers EXCEPT ![c] = <<>>]
    /\ result' = [result EXCEPT ![c] = NoResult]
    /\ steps' = [steps EXCEPT ![c] = <<>>]
    /\ UNCHANGED <<ncalls, client>>

\* Dropping a call drops every call of the client that is in flight.
CancelAll(c) ==
    LET dropped == {d \in DOMAIN pc : pc[d] \in {"send", "err_body", "ok_body"}} IN
    /\ pc[c] \in {"send", "err_body", "ok_body"}
    /\ pc' = [d \in DOMAIN pc |-> IF d \in dropped THEN "idle" ELSE pc[d]]
    /\ op' = [d \in DOMAIN pc |-> IF d \in dropped THEN "" ELSE op[d]]
    /\ req' = [d \in DOMAIN pc |-> IF d \in dropped THEN NoReq ELSE req[d]]
    /\ sent' = [d \in DOMAIN pc |-> IF d \in dropped THEN NoRequest ELSE sent[d]]
    /\ nsent' = [d \in DOMAIN pc |-> IF d \in dropped THEN 0 ELSE nsent[d]]
    /\ wire' = [d \in DOMAIN pc |-> IF d \in dropped THEN NoWire ELSE wire[d]]
    /\ headers' = [d \in DOMAIN pc |-> IF d \in dropped THEN <<>> ELSE headers[d]]
    /\ steps' = [d \in DOMAIN pc |-> IF d \in dropped THEN <<>> ELSE steps[d]]
    /\ UNCHANGED <<result, ncalls, client>>

\* The caller drops the call at one of its await points: the locals of the
\* call are dropped with it and no result is produced.
Cancel(c) ==
    /\ pc[c] \in {"send", "err_body", "ok_body"}
    /\ pc' = [pc EXCEPT ![c] = "idle"]
    /\ op' = [op EXCEPT ![c] = ""]
    /\ req' = [req EXCEPT ![c] = NoReq]
    /\ sent' = [sent EXCEPT ![c] = NoRequest]
    /\ nsent' = [nsent EXCEPT ![c] = 0]
    /\ wire' = [wire EXCEPT ![c] = NoWire]
    /\ headers' = [headers EXCEPT ![c] = <<>>]
    /\ steps' = [steps EXCEPT ![c] = <<>>]
    /\ UNCHANGED <<result, ncalls, client>>

Next ==
    \E c \in DOMAIN pc :
        \/ \E r \in GetEventsRequests : GetEvents(c, r)
        \/ \E r \in GetEventInfoRequests : GetEventInfo(c, r)
        \/ \E r \in SearchRequests : Search(c, r)
        \/ \E e \in TransportErrors : SendFails(c, e)
        \/ \E s \in Statuses, l \in HeaderLines : SendOk(c, s, l)
        \/ \E i \in 1..Len(Bodies) : ErrBody(c, Bodies[i])
        \/ \E i \in 1..Len(Bodies) : OkBody(c, Bodies[i])
        \/ Return(c)
        \/ Cancel(c)

Spec == Init /\ [][Next]_vars

\* ------------------------------------------------------------------------
\* Two clients, constructed from any key and base URL, and their calls.

ApiKeys == {"", "abc123", "key2", "abc\n123", "a\tb"}

BaseUrls ==
    {"http://localhost", "http://localhost/api", "http://localhost/api/v1/?x=1",
     "derp", "mailto:a@b.c"}

InitClients ==
    /\ client = [k \in {"k1", "k2"} |-> NoClient]
    /\ pc = [c \in Slots |-> "idle"]
    /\ op = [c \in Slots |-> ""]
    /\ req = [c \in Slots |-> NoReq]
    /\ sent = [c \in Slots |-> NoRequest]
    /\ nsent = [c \in Slots |-> 0]
    /\ wire = [c \in Slots |-> NoWire]
    /\ headers = [c \in Slots |-> <<>>]
    /\ result = [c \in Slots |-> NoResult]
    /\ steps = [c \in Slots |-> <<>>]
    /\ ncalls = 0

NextClients ==
    \/ \E k \in DOMAIN client, key \in ApiKeys, built \in BOOLEAN : New(k, key, built)
    \/ \E k \in DOMAIN client, key \in ApiKeys, url \in BaseUrls, built \in BOOLEAN :
            Construct(k, key, url, built)
    \/ \E c \in DOMAIN pc :
        \/ GetEvents(c, [date |-> NoneStr, adult |-> NoneBool, timezone |-> NoneStr])
        \/ GetEventInfo(c, [id |-> "f90b893ea04939d7456f30c54f68d7b4", start |-> NoneInt, end |-> NoneInt])
        \/ Search(c, [query |-> "zucchini", adult |-> NoneBool])
        \/ SendFails(c, "error sending request for url (http://localhost/events?adult=false): operation timed out")
        \/ SendOk(c, 200, <<>>)
        \/ OkBody(c, EventsBody)
        \/ Return(c)
        \/ Cancel(c)

SpecClients == InitClients /\ [][NextClients]_vars

\* ------------------------------------------------------------------------
\* Calls running concurrently on one client: each slot is a future of the
\* caller, polled in any order.

ConcurrentSlots == {"a", "b"}

\* The header lines and the bodies of the answers to concurrent calls.
ConcurrentLines ==
    {<<>>,
     <<[name |-> "x-ratelimit-limit-month", value |-> <<"1", "0", "0">>],
       [name |-> "x-ratelimit-remaining-month", value |-> <<"8", "8">>]>>}

ConcurrentBodies == <<JMalformed, JObj([error |-> JStr("MyError!")]), EventsBody, SearchBody>>

InitConcurrent ==
    /\ client = [k \in {"k1"} |-> NewInternal("abc123", "http://localhost", TRUE)]
    /\ pc = [c \in ConcurrentSlots |-> "idle"]
    /\ op = [c \in ConcurrentSlots |-> ""]
    /\ req = [c \in ConcurrentSlots |-> NoReq]
    /\ sent = [c \in ConcurrentSlots |-> NoRequest]
    /\ nsent = [c \in ConcurrentSlots |-> 0]
    /\ wire = [c \in ConcurrentSlots |-> NoWire]
    /\ headers = [c \in ConcurrentSlots |-> <<>>]
    /\ result = [c \in ConcurrentSlots |-> NoResult]
    /\ steps = [c \in ConcurrentSlots |-> <<>>]
    /\ ncalls = 0

NextConcurrent ==
    \E c \in DOMAIN pc :
        \/ GetEvents(c, [date |-> NoneStr, adult |-> NoneBool, timezone |-> NoneStr])
        \/ \E id \in {"", "f90b893ea04939d7456f30c54f68d7b4"} :
                GetEventInfo(c, [id |-> id, start |-> NoneInt, end |-> NoneInt])
        \/ Search(c, [query |-> "zucchini", adult |-> Some(TRUE)])
        \/ SendFails(c, "error sending request for url (http://localhost/events?adult=false): operation timed out")
        \/ \E s \in {200, 401}, l \in ConcurrentLines : SendOk(c, s, l)
        \/ \E i \in 1..Len(ConcurrentBodies) : ErrBody(c, ConcurrentBodies[i])
        \/ \E i \in 1..Len(ConcurrentBodies) : OkBody(c, ConcurrentBodies[i])
        \/ Return(c)
        \/ Cancel(c)

SpecConcurrent == InitConcurrent /\ [][NextConcurrent]_vars

\* ------------------------------------------------------------------------
\* The client against servers that redirect.

RedirectStatuses == {200, 302, 401}

LocationLine ==
    [name |-> "Location", value |-> <<"/", "r", "e", "d", "i", "r", "e", "c", "t", "e", "d">>]

RedirectLines ==
    {l \o r : l \in {<<>>, <<LocationLine>>},
              r \in {<<>>, <<[name |-> "x-ratelimit-remaining-month", value |-> <<"8", "8">>]>>}}

RedirectBodies == <<JMalformed, JObj([error |-> JStr("MyError!")]), EventsBody, SearchBody>>

NextRedirect ==
    \E c \in DOMAIN pc :
        \/ GetEvents(c, [date |-> NoneStr, adult |-> NoneBool, timezone |-> NoneStr])
        \/ Search(c, [query |-> "zucchini", adult |-> NoneBool])
        \/ \E e \in TransportErrors : SendFails(c, e)
        \/ \E s \in RedirectStatuses, l \in RedirectLines : Redirect(c, s, l)
        \/ \E s \in RedirectStatuses, l \in RedirectLines : SendOk(c, s, l)
        \/ \E i \in 1..Len(RedirectBodies) : ErrBody(c, RedirectBodies[i])
        \/ \E i \in 1..Len(RedirectBodies) : OkBody(c, RedirectBodies[i])
        \/ Return(c)
        \/ Cancel(c)

SpecRedirect == Init /\ [][NextRedirect]_vars

\* ------------------------------------------------------------------------
\* The client against success answers with many bodies: what decoding does.

\* JSON values a server may send in the date field of an events body.
DateValues ==
    <<JStr("05/05/2025"), JStr("1734772794"), JStr(""),
      JInt(1734772794), JInt(-12345), JInt(0),
      JNum("-0"), JNum("9223372036854775807"), JNum("9223372036854775808"),
      JNum("18446744073709551615"), JNum("18446744073709551616"),
      JNum("-9223372036854775808"), JNum("-9223372036854775809"),
      JNum("1.5"), JNum("1e3"),
      JBool(TRUE), JNull, JArr(<<>>), JObj([date |-> JStr("05/05/2025")])>>

DateBodies ==
    [i \in 1..Len(DateValues) |-> JObj([EventsBody.v EXCEPT !.date = DateValues[i]])]

\* JSON values a server may send under the key rate_limit of a body.
RateLimitValues ==
    <<JObj([limit_month |-> JInt(5), remaining_month |-> JInt(3)]),
      JObj([limit_month |-> JStr("5")]),
      JStr("unlimited"), JInt(7), JNull, JArr(<<>>)>>

WithRateLimit(body, j) == JObj(("rate_limit" :> j) @@ body.v)

RateLimitBodies ==
    [i \in 1..(3 * Len(RateLimitValues)) |->
        LET j == RateLimitValues[((i - 1) % Len(RateLimitValues)) + 1]
            b == (i - 1) \div Len(RateLimitValues)
        IN  WithRateLimit(CASE b = 0 -> EventsBody [] b = 1 -> EventInfoBody [] b = 2 -> SearchBody, j)]

\* The event of the default answer of the event endpoint, with every group.
FullEvent ==
    [id |-> JStr("f90b893ea04939d7456f30c54f68d7b4"),
     name |-> JStr("International Cat Day"),
     url |-> JStr("https://www.checkiday.com/f90b893ea04939d7456f30c54f68d7b4/international-cat-day"),
     adult |-> JBool(FALSE),
     alternate_names |->
        JArr(<<JObj([name |-> JStr("TEST"), first_year |-> JInt(2005), last_year |-> JNull])>>),
     hashtags |-> JArr(<<JStr("InternationalCatDay"), JStr("CatDay")>>),
     image |->
        JObj([small |-> JStr("https://static.checkiday.com/img/300/kittens-555822.jpg"),
              medium |-> JStr("https://static.checkiday.com/img/600/kittens-555822.jpg"),
              large |-> JStr("https://static.checkiday.com/img/1200/kittens-555822.jpg")]),
     sources |-> JArr(<<JStr("https://www.source.com/1"), JStr("https://www.source.org/2")>>),
     description |->
        JObj([text |-> JStr("International Cat Day celebrates love for cats..."),
              html |-> JStr("<p>International Cat Day celebrates love for cats...</p>"),
              markdown |-> JStr("International Cat Day [celebrates](https://www.google.com) love for cats...")]),
     how_to_observe |->
        JObj([text |-> JStr("Spend the day playing with your cat..."),
              html |-> JStr("<p>Spend the day playing with your cat...</p>"),
              markdown |-> JStr("Spend the day [playing](https://www.bing.com) with your cat...")]),
     patterns |->
        JArr(<<JObj([first_year |-> JInt(2002), last_year |-> JNull,
                     observed |-> JStr("annually on August 8th"),
                     observed_html |-> JStr("annually on <a>August 8th</a>"),
                     observed_markdown |-> JStr("annually on [August 8th](https://www.checkiday.com/8/8)"),
                     length |-> JInt(1)])>>),
     occurrences |->
        JArr(<<JObj([date |-> JStr("08/08/2024"), length |-> JInt(1)]),
               JObj([date |-> JInt(1734772794), length |-> JInt(1)]),
               JObj([date |-> JInt(-12345), length |-> JInt(7)])>>),
     founders |->
        JArr(<<JObj([name |-> JStr("International Fund For Animal Welfare"),
                     date |-> JStr("2002"), url |-> JStr("https://www.ifaw.org/")])>>),
     analytics |->
        JObj([overall_rank |-> JInt(12), social_rank |-> JInt(34), social_shares |-> JInt(56),
              popularity |-> JStr("***..")]),
     tags |-> JArr(<<JObj([name |-> JStr("A")]), JObj([name |-> JStr("B")])>>)]

\* An event body with the groups in present; the other groups are left out,
\* or sent as null when asNull holds.
GroupBody(present, asNull) ==
    LET keys == IF asNull THEN DOMAIN FullEvent
                ELSE (DOMAIN FullEvent \ OptionalGroups) \cup present
    IN  JObj([event |->
            JObj([k \in keys |->
                IF k \in OptionalGroups \ present THEN JNull ELSE FullEvent[k]])])

DecodeBodies == <<EventsBody, EventInfoBody, SearchBody>> \o DateBodies \o RateLimitBodies

DecodeLines ==
    {<<>>,
     <<[name |-> "x-ratelimit-limit-month", value |-> <<"1", "0", "0">>],
       [name |-> "x-ratelimit-remaining-month", value |-> <<"8", "8">>]>>}

NextDecode ==
    \E c \in DOMAIN pc :
        \/ GetEvents(c, [date |-> NoneStr, adult |-> NoneBool, timezone |-> NoneStr])
        \/ GetEventInfo(c, [id |-> "f90b893ea04939d7456f30c54f68d7b4", start |-> NoneInt, end |-> NoneInt])
        \/ Search(c, [query |-> "zucchini", adult |-> NoneBool])
        \/ \E l \in DecodeLines : SendOk(c, 200, l)
        \/ \E i \in 1..Len(DecodeBodies) : OkBody(c, DecodeBodies[i])
        \/ Return(c)
        \/ Cancel(c)

SpecDecode == Init /\ [][NextDecode]_vars

\* ------------------------------------------------------------------------
\* get_event_info against answers that hold any choice of the optional groups.

NextGroups ==
    \E c \in DOMAIN pc :
        \/ GetEventInfo(c, [id |-> "f90b893ea04939d7456f30c54f68d7b4", start |-> NoneInt, end |-> NoneInt])
        \/ SendOk(c, 200, <<>>)
        \/ \E present \in SUBSET OptionalGroups, asNull \in BOOLEAN :
                OkBody(c, GroupBody(present, asNull))
        \/ Return(c)
        \/ Cancel(c)

SpecGroups == Init /\ [][NextGroups]_vars

\* ------------------------------------------------------------------------
\* Properties.

\* The call in slot c has ended after a response with a non-success status
\* whose body was read.
HttpFailed(c) ==
    pc[c] = "done" /\ wire[c].status # 0 /\ ~IsSuccess(wire[c].status)

\* A JSON object all of whose values are strings.
FlatStringObject(j) == j.t = "obj" /\ \A k \in DOMAIN j.v : j.v[k].t = "str"

\* The body carries a non-empty string under "error".
HasErrorMessage(j) ==
    j.t = "obj" /\ "error" \in DOMAIN j.v /\ j.v["error"].t = "str" /\ j.v["error"].v # ""

\* C1: on a non-success status whose body is a flat string-to-string JSON
\* object with a non-empty "error" entry, the call fails with exactly that
\* string, whatever the status and the operation.
C1_ApiErrorVerbatim ==
    \A c \in DOMAIN pc :
        (HttpFailed(c) /\ FlatStringObject(wire[c].body) /\ HasErrorMessage(wire[c].body))
            => result[c] = Err(wire[c].body.v["error"].v)

C1_Witness ==
    \E c \in DOMAIN pc :
        /\ HttpFailed(c) /\ op[c] = "search" /\ wire[c].status = 401
        /\ wire[c].body.t = "obj" /\ wire[c].body = JObj([error |-> JStr("MyError!")])
        /\ result[c].err = "MyError!"

\* The body is not a JSON object, or nests a value, or has no "error" entry,
\* or has an empty one.
NoErrorMessage(j) ==
    \/ j.t # "obj"
    \/ \E k \in DOMAIN j.v : j.v[k].t \in {"obj", "arr"}
    \/ "error" \notin DOMAIN j.v
    \/ j.v["error"] = JStr("")

\* The reason phrases of RFC 9110 for the statuses a server may send here.
ReasonPhrase(status) ==
    CASE status = 401 -> "Unauthorized"
      [] status = 500 -> "Internal Server Error"
      [] status = 599 -> "599"

\* C2: on a non-success status whose body gives no error message, the call
\* fails with the reason phrase of the status (500: "Internal Server Error"),
\* or with the numeric code when the status has none (599: "599").
C2_ReasonPhraseOrCode ==
    \A c \in DOMAIN pc :
        (HttpFailed(c) /\ NoErrorMessage(wire[c].body))
            => result[c] = Err(ReasonPhrase(wire[c].status))

C2_Witness ==
    \E c \in DOMAIN pc :
        /\ HttpFailed(c) /\ wire[c].status = 599 /\ wire[c].body.t = "malformed"
        /\ result[c].err = "599"

\* C3: get_event_info with an empty id returns "Event id is required." and
\* issues no network request, whatever start and end are.
C3_MissingId ==
    \A c \in DOMAIN pc :
        (op[c] = "get_event_info" /\ req[c].id = "")
            => /\ pc[c] = "done"
               /\ result[c] = Err("Event id is required.")
               /\ nsent[c] = 0 /\ sent[c] = NoRequest /\ wire[c] = NoWire

C3_Witness ==
    \E c \in DOMAIN pc :
        /\ op[c] = "get_event_info" /\ req[c].id = "" /\ req[c].start = Some(2002)
        /\ req[c].end = Some(2003) /\ pc[c] = "done" /\ result[c].kind = "err"

\* C4: search with an empty query returns "Search query is required." and
\* issues no network request, whatever adult is.
C4_MissingQuery ==
    \A c \in DOMAIN pc :
        (op[c] = "search" /\ req[c].query = "")
            => /\ pc[c] = "done"
               /\ result[c] = Err("Search query is required.")
               /\ nsent[c] = 0 /\ sent[c] = NoRequest /\ wire[c] = NoWire

C4_Witness ==
    \E c \in DOMAIN pc :
        /\ op[c] = "search" /\ req[c].query = "" /\ req[c].adult = Some(TRUE)
        /\ pc[c] = "done" /\ result[c].kind = "err"

\* The call in slot c is a call of the operation that has issued its request.
Issued(c, name) == op[c] = name /\ nsent[c] > 0

\* The keys sent for the optional parameters that the caller supplied.
Supplied(request, keys) == {k \in keys : request[k].some}

\* C5: a get_events request sends adult always ("true" when set to true,
\* "false" when unset or false), timezone and date exactly when supplied and
\* with the supplied value, and no other key.
C5_GetEventsQuery ==
    \A c \in DOMAIN pc :
        (op[c] = "get_events" /\ pc[c] # "idle") =>
            /\ nsent[c] = 1 /\ sent[c].path = "events"
            /\ DOMAIN sent[c].params = {"adult"} \cup Supplied(req[c], {"timezone", "date"})
            /\ sent[c].params["adult"] = (IF req[c].adult = Some(TRUE) THEN "true" ELSE "false")
            /\ \A k \in Supplied(req[c], {"timezone", "date"}) : sent[c].params[k] = req[c][k].v

C5_Witness ==
    \E c \in DOMAIN pc :
        /\ Issued(c, "get_events") /\ req[c].adult = NoneBool
        /\ req[c].timezone = Some("America/New_York") /\ req[c].date = NoneStr
        /\ DOMAIN sent[c].params = {"adult", "timezone"}

\* The decimal form of the years a caller may pass here.
Decimal(n) == CASE n = 2002 -> "2002" [] n = 2003 -> "2003" [] n = -1 -> "-1"

\* C6: a get_event_info request with a non-empty id sends id with the
\* caller's value, start and end as decimal strings exactly when supplied, and
\* no other key.
C6_GetEventInfoQuery ==
    \A c \in DOMAIN pc :
        (op[c] = "get_event_info" /\ req[c].id # "") =>
            /\ nsent[c] = 1 /\ sent[c].path = "event"
            /\ DOMAIN sent[c].params = {"id"} \cup Supplied(req[c], {"start", "end"})
            /\ sent[c].params["id"] = req[c].id
            /\ \A k \in Supplied(req[c], {"start", "end"}) : sent[c].params[k] = Decimal(req[c][k].v)

C6_Witness ==
    \E c \in DOMAIN pc :
        /\ Issued(c, "get_event_info") /\ req[c].start = Some(-1) /\ req[c].end = Some(2003)
        /\ sent[c].params["start"] = "-1" /\ sent[c].params["end"] = "2003"

\* C7: a search request with a non-empty query sends exactly query with the
\* caller's value and adult ("true" when set to true, otherwise "false").
C7_SearchQuery ==
    \A c \in DOMAIN pc :
        (op[c] = "search" /\ req[c].query # "") =>
            /\ nsent[c] = 1 /\ sent[c].path = "search"
            /\ DOMAIN sent[c].params = {"query", "adult"}
            /\ sent[c].params["query"] = req[c].query
            /\ sent[c].params["adult"] = (IF req[c].adult = Some(TRUE) THEN "true" ELSE "false")

C7_Witness ==
    \E c \in DOMAIN pc :
        /\ Issued(c, "search") /\ req[c].adult = NoneBool
        /\ sent[c].params["adult"] = "false" /\ sent[c].params["query"] = "zucchini"

\* The spellings of the two header names a server may use.
LimitSpellings ==
    {"x-ratelimit-limit-month", "X-RateLimit-Limit-Month", "X-RATELIMIT-LIMIT-MONTH"}

RemainingSpellings ==
    {"x-ratelimit-remaining-month", "X-RateLimit-Remaining-Month", "X-RATELIMIT-REMAINING-MONTH"}

\* The header line of the response in slot c under one of the spellings.
SentLines(c, spellings) ==
    {i \in 1..Len(wire[c].lines) : wire[c].lines[i].name \in spellings}

SentValue(c, spellings) == wire[c].lines[CHOOSE i \in SentLines(c, spellings) : TRUE].value

Digits == {"0", "1", "2", "3", "4", "5", "6", "7", "8", "9"}

\* The header value without its sign.
Unsigned(v) == IF Len(v) > 0 /\ v[1] \in {"+", "-"} THEN Tail(v) ELSE v

\* The header value is a decimal integer: an optional sign, then digits.
IsInteger(v) == Len(Unsigned(v)) > 0 /\ \A i \in 1..Len(Unsigned(v)) : Unsigned(v)[i] \in Digits

\* a <= b for two digit strings of the same length.
RECURSIVE DigitsLeq(_, _)
DigitsLeq(a, b) ==
    IF Len(a) = 0 THEN TRUE
    ELSE IF ToDigit(Head(a)) # ToDigit(Head(b)) THEN ToDigit(Head(a)) < ToDigit(Head(b))
    ELSE DigitsLeq(Tail(a), Tail(b))

\* The integer written in the header value lies in -2^31 .. 2^31 - 1.
FitsI32(v) ==
    LET d == Unsigned(v)
        top == IF v[1] = "-" THEN <<"2", "1", "4", "7", "4", "8", "3", "6", "4", "8">>
               ELSE <<"2", "1", "4", "7", "4", "8", "3", "6", "4", "7">>
    IN  Len(d) < 10 \/ (Len(d) = 10 /\ DigitsLeq(d, top))

RECURSIVE NatChars(_)
NatChars(n) == IF n < 10 THEN <<DigitStr(n)>> ELSE Append(NatChars(n \div 10), DigitStr(n % 10))

\* An integer written in decimal, and a header value written the same way.
DecimalChars(n) == IF n < 0 THEN <<"-">> \o NatChars(-n) ELSE NatChars(n)

Canonical(v) == IF v[1] = "+" THEN Tail(v) ELSE v

\* The field of the returned rate limit is the integer written in the header.
FieldIsHeader(c, field, spellings) ==
    DecimalChars(result[c].value.rate_limit[field]) = Canonical(SentValue(c, spellings))

\* C8 as stated: on a successful call each rate-limit field equals the
\* integer in its header, under any spelling of the header name.
C8_FieldsEqualHeaders ==
    \A c \in DOMAIN pc :
        result[c].kind = "ok" =>
            /\ (SentLines(c, LimitSpellings) # {} /\ IsInteger(SentValue(c, LimitSpellings)))
                    => FieldIsHeader(c, "limit_month", LimitSpellings)
            /\ (SentLines(c, RemainingSpellings) # {} /\ IsInteger(SentValue(c, RemainingSpellings)))
                    => FieldIsHeader(c, "remaining_month", RemainingSpellings)

\* The header is present and holds an integer of the range of i32.
GoodHeader(c, spellings) ==
    /\ SentLines(c, spellings) # {}
    /\ IsInteger(SentValue(c, spellings))
    /\ FitsI32(SentValue(c, spellings))

\* C8, amended: on a successful call each rate-limit field equals the integer
\* in its header when that integer lies in -2^31 .. 2^31 - 1, under any
\* spelling of the header name and for the three response types.
C8_FieldsEqualHeadersInRange ==
    \A c \in DOMAIN pc :
        result[c].kind = "ok" =>
            /\ GoodHeader(c, LimitSpellings) => FieldIsHeader(c, "limit_month", LimitSpellings)
            /\ GoodHeader(c, RemainingSpellings) => FieldIsHeader(c, "remaining_month", RemainingSpellings)

C8_Witness ==
    \E c \in DOMAIN pc :
        /\ result[c].kind = "ok" /\ op[c] = "get_event_info"
        /\ \E i \in 1..Len(wire[c].lines) : wire[c].lines[i].name = "X-RateLimit-Limit-Month"
        /\ \E i \in 1..Len(wire[c].lines) : wire[c].lines[i].name = "X-RATELIMIT-REMAINING-MONTH"
        /\ result[c].value.rate_limit = [limit_month |-> 100, remaining_month |-> 88]

\* The response in slot c has a success status and a body of the shape of
\* the operation.
Decodable(c) ==
    /\ pc[c] = "done" /\ IsSuccess(wire[c].status)
    /\ wire[c].body.t = "obj"
    /\ \/ op[c] = "get_events" /\ wire[c].body = EventsBody
       \/ op[c] = "get_event_info" /\ wire[c].body = EventInfoBody
       \/ op[c] = "search" /\ wire[c].body = SearchBody

\* C9: on a success status with a decodable body the call succeeds whatever
\* the rate-limit headers are; a field whose header is absent or does not
\* parse as an integer is 0, and the other field keeps its own header's value.
C9_HeadersIndependent ==
    \A c \in DOMAIN pc :
        Decodable(c) =>
            /\ result[c].kind = "ok"
            /\ IF GoodHeader(c, LimitSpellings)
               THEN FieldIsHeader(c, "limit_month", LimitSpellings)
               ELSE result[c].value.rate_limit.limit_month = 0
            /\ IF GoodHeader(c, RemainingSpellings)
               THEN FieldIsHeader(c, "remaining_month", RemainingSpellings)
               ELSE result[c].value.rate_limit.remaining_month = 0

C9_Witness ==
    \E c \in DOMAIN pc :
        /\ Decodable(c)
        /\ SentLines(c, LimitSpellings) # {}
        /\ SentValue(c, LimitSpellings) = <<"1", "2", "a">>
        /\ result[c].kind = "ok"
        /\ result[c].value.rate_limit = [limit_month |-> 0, remaining_month |-> 88]

\* C10 as stated: in every returned response both rate-limit fields are
\* non-negative, whatever header values the server sends.
C10_RateLimitNonNegative ==
    \A c \in DOMAIN pc :
        result[c].kind = "ok" =>
            /\ result[c].value.rate_limit.limit_month >= 0
            /\ result[c].value.rate_limit.remaining_month >= 0

\* s begins with p.
StartsWith(s, p) == Len(s) >= Len(p) /\ SubSeq(s, 1, Len(p)) = p

\* The response in slot c has a success status and a body that is not of the
\* shape of the operation.
Undecodable(c) ==
    /\ pc[c] = "done" /\ IsSuccess(wire[c].status)
    /\ ~(/\ wire[c].body.t = "obj"
         /\ \/ op[c] = "get_events" /\ wire[c].body = EventsBody
            \/ op[c] = "get_event_info" /\ wire[c].body = EventInfoBody
            \/ op[c] = "search" /\ wire[c].body = SearchBody)

\* The messages of an HTTP error: the API's messages, the reason phrases and
\* the numeric codes.
HttpErrorShapes ==
    {"MyError!", "OK", "Unauthorized", "Not Found", "Internal Server Error",
     "200", "401", "404", "500", "599"}

\* C11: on a success status with a body that does not decode into the
\* operation's response shape, the call fails with "Can't parse response: "
\* followed by the decoder's diagnostic; the message is none of the HTTP-error
\* messages and does not have the transport-error prefix.
C11_ParseErrorShape ==
    \A c \in DOMAIN pc :
        Undecodable(c) =>
            /\ result[c].kind = "err"
            /\ StartsWith(result[c].err, "Can't parse response: ")
            /\ Len(result[c].err) > Len("Can't parse response: ")
            /\ ~StartsWith(result[c].err, "Can't process request: ")
            /\ result[c].err \notin HttpErrorShapes
            /\ (op[c] = "get_events" /\ wire[c].body.t = "malformed") =>
                    result[c].err = "Can't parse response: error decoding response body: EOF while parsing an object at line 1 column 1"

C11_Witness ==
    \E c \in DOMAIN pc :
        /\ Undecodable(c) /\ op[c] = "get_events" /\ wire[c].body.t = "malformed"
        /\ result[c].kind = "err"

C13_NoRetry ==
    [][\A c \in DOMAIN pc :
        /\ nsent'[c] <= 1
        /\ (result[c].kind = "none" /\ result'[c].kind = "err") =>
                (pc'[c] = "done" /\ nsent'[c] = nsent[c])
        /\ result[c].kind = "err" =>
                (pc'[c] = "idle" \/ (pc'[c] = "done" /\ nsent'[c] = nsent[c] /\ result'[c] = result[c]))]_vars

C13_Witness ==
    \E c \in DOMAIN pc :
        /\ result[c].kind = "err" /\ nsent[c] = 1 /\ wire[c].error # ""
        /\ steps[c] = <<"send", "return">>

\* The fields of the response type of an operation.
ResponseFields(name) ==
    CASE name = "get_events" ->
            {"adult", "date", "timezone", "events", "multiday_starting", "multiday_ongoing", "rate_limit"}
      [] name = "get_event_info" -> {"event", "rate_limit"}
      [] name = "search" -> {"query", "adult", "events", "rate_limit"}

\* C14: a call ends either with an error that carries no response data or
\* with a response all of whose fields are decoded and whose rate limit has
\* been attached; while a call is in flight, and after it has been abandoned,
\* no result is observable.
C14_ErrorOrCompleteResponse ==
    \A c \in DOMAIN pc :
        /\ pc[c] # "done" => result[c].kind = "none"
        /\ pc[c] = "done" => result[c].kind \in {"ok", "err"}
        /\ result[c].kind = "err" => (result[c].err # "" /\ result[c].value = JNull)
        /\ result[c].kind = "ok" =>
                /\ result[c].err = ""
                /\ DOMAIN result[c].value = ResponseFields(op[c])
                /\ \E i \in 1..Len(steps[c]) : steps[c][i] = "set_rate_limit"

C14_Witness ==
    \E c \in DOMAIN pc :
        /\ pc[c] = "done" /\ result[c].kind = "err"
        /\ steps[c] = <<"send", "status", "decode", "return">>

\* The positions of a step among the steps of the call in slot c.
StepsAt(c, name) == {i \in 1..Len(steps[c]) : steps[c][i] = name}

RedirectedToValid(c) ==
    /\ pc[c] = "done" /\ wire[c].hops >= 1 /\ wire[c].error = ""
    /\ IsSuccess(wire[c].status)
    /\ wire[c].body.t = "obj"
    /\ \/ op[c] = "get_events" /\ wire[c].body = EventsBody
       \/ op[c] = "search" /\ wire[c].body = SearchBody

\* C16: a 302 answer that names a second endpoint is followed inside the one
\* request of the call; when the second endpoint answers with a success status
\* and a valid body the call succeeds with the content of that body, and a
\* 302 that was followed is never reported as an HTTP error.
C16_FollowsRedirects ==
    \A c \in DOMAIN pc :
        /\ RedirectedToValid(c) =>
                /\ result[c].kind = "ok"
                /\ nsent[c] = 1
                /\ op[c] = "get_events" =>
                        /\ result[c].value.date = [variant |-> "Date", date |-> "05/05/2025", ts |-> ""]
                        /\ result[c].value.timezone = "America/Chicago"
                        /\ Len(result[c].value.events) = 1
                        /\ result[c].value.events[1].name = "Cinco de Mayo"
                /\ op[c] = "search" =>
                        /\ result[c].value.query = "zucchini"
                        /\ Len(result[c].value.events) = 1
        /\ (result[c].kind = "err" /\ result[c].err \in {"Found", "302"}) =>
                (wire[c].status = 302 /\ \A i \in 1..Len(wire[c].lines) : wire[c].lines[i].name # "Location")
        /\ wire[c].hops > 0 => \E i \in 1..Len(steps[c]) : steps[c][i] = "redirect"

C16_Witness ==
    \E c \in DOMAIN pc :
        /\ RedirectedToValid(c) /\ wire[c].hops = 1 /\ op[c] = "get_events"
        /\ result[c].kind = "ok"
        /\ steps[c] = <<"send", "redirect", "status", "decode", "set_rate_limit", "return">>

\* The call in slot c is a get_events call answered with a success status
\* and an events body whose fields other than date are the valid ones.
DateCase(c) ==
    /\ pc[c] = "done" /\ op[c] = "get_events" /\ IsSuccess(wire[c].status)
    /\ wire[c].body.t = "obj"
    /\ DOMAIN wire[c].body.v = DOMAIN EventsBody.v
    /\ \A k \in DOMAIN EventsBody.v \ {"date"} : wire[c].body.v[k] = EventsBody.v[k]

\* The text of a JSON number as it stands in the body.
NumberText(j) == IF j.t = "int" THEN Join(DecimalChars(j.v)) ELSE j.v

\* A JSON number without fraction and exponent.
IsJsonInteger(j) ==
    /\ j.t \in {"int", "num"}
    /\ LET cs == Chars(NumberText(j))
           m == IF cs[1] = "-" THEN Tail(cs) ELSE cs
       IN  Len(m) > 0 /\ \A i \in 1..Len(m) : m[i] \in Digits

\* C17: the variant of a date-or-timestamp field follows the JSON type of the
\* value only: every string gives Date with that string, every integer gives
\* Timestamp, every other JSON value is a decode error.
C17_VariantByJsonType ==
    \A c \in DOMAIN pc :
        DateCase(c) =>
            LET d == wire[c].body.v.date IN
            /\ d.t = "str" =>
                    /\ result[c].kind = "ok"
                    /\ result[c].value.date = [variant |-> "Date", date |-> d.v, ts |-> ""]
            /\ IsJsonInteger(d) =>
                    /\ result[c].kind = "ok"
                    /\ result[c].value.date.variant = "Timestamp"
            /\ (d.t # "str" /\ ~IsJsonInteger(d)) =>
                    /\ result[c].kind = "err"
                    /\ StartsWith(result[c].err, "Can't parse response: ")

\* The JSON form of a decoded date-or-timestamp value.
Encode(x) == IF x.variant = "Date" THEN JStr(x.date) ELSE JNum(x.ts)

\* C18: a decoded Timestamp holds exactly the integer that stands in the body,
\* signed or unsigned, and decoding the JSON form of a decoded value gives
\* that value again.
C18_TimestampExact ==
    \A c \in DOMAIN pc :
        (DateCase(c) /\ result[c].kind = "ok") =>
            LET d == wire[c].body.v.date
                x == result[c].value.date
            IN  /\ IsJsonInteger(d) => (x.variant = "Timestamp" /\ x.ts = NumberText(d))
                /\ DecodeDate(Encode(x)).ok
                /\ DecodeDate(Encode(x)).v = x

\* The body without its rate_limit entry.
Strip(body) == JObj([k \in DOMAIN body.v \ {"rate_limit"} |-> body.v[k]])

\* The call in slot c got a success answer whose body is the valid body of
\* the operation with an entry rate_limit added.
RateLimitCase(c) ==
    /\ pc[c] = "done" /\ IsSuccess(wire[c].status)
    /\ wire[c].body.t = "obj"
    /\ "rate_limit" \in DOMAIN wire[c].body.v
    /\ \/ op[c] = "get_events" /\ Strip(wire[c].body) = EventsBody
       \/ op[c] = "get_event_info" /\ Strip(wire[c].body) = EventInfoBody
       \/ op[c] = "search" /\ Strip(wire[c].body) = SearchBody

\* The rate limit the header lines of the answer state.
StatedRateLimit(c) ==
    IF wire[c].lines = <<>> THEN [limit_month |-> 0, remaining_month |-> 0]
    ELSE [limit_month |-> 100, remaining_month |-> 88]

\* C19: a rate_limit entry in a body, whatever it holds, never makes decoding
\* fail and never shows in the response: the response equals the one given
\* for the same body without the entry and the same headers, and its rate
\* limit is the one the headers state.
C19_RateLimitFromHeadersOnly ==
    \A c \in DOMAIN pc :
        RateLimitCase(c) =>
            /\ result[c].kind = "ok"
            /\ result[c].value.rate_limit = StatedRateLimit(c)
            /\ DecodeResponse(op[c], Strip(wire[c].body)).ok
            /\ result[c].value =
                    SetRateLimit(DecodeResponse(op[c], Strip(wire[c].body)).v, StatedRateLimit(c))

C19_Witness ==
    \E c \in DOMAIN pc :
        /\ RateLimitCase(c) /\ op[c] = "get_events"
        /\ wire[c].body.v.rate_limit.t = "obj"
        /\ DOMAIN wire[c].body.v.rate_limit.v = {"limit_month", "remaining_month"}
        /\ wire[c].body.v.rate_limit.v.limit_month = JInt(5)
        /\ wire[c].lines # <<>>
        /\ result[c].kind = "ok"
        /\ result[c].value.rate_limit = [limit_month |-> 100, remaining_month |-> 88]

\* The call in slot c is a get_event_info call answered with a success
\* status and the default event with some of its groups left out or null.
GroupCase(c) ==
    /\ pc[c] = "done" /\ op[c] = "get_event_info" /\ IsSuccess(wire[c].status)
    /\ wire[c].body.t = "obj"
    /\ DOMAIN wire[c].body.v = {"event"}
    /\ wire[c].body.v.event.t = "obj"
    /\ LET ev == wire[c].body.v.event.v IN
       /\ DOMAIN FullEvent \ OptionalGroups \subseteq DOMAIN ev
       /\ DOMAIN ev \subseteq DOMAIN FullEvent
       /\ ev.id = FullEvent.id
       /\ \A k \in DOMAIN ev : ev[k].t = "null" \/ ev[k] = FullEvent[k]

\* The groups the body of slot c holds.
PresentGroups(c) ==
    {k \in OptionalGroups :
        k \in DOMAIN wire[c].body.v.event.v /\ wire[c].body.v.event.v[k].t # "null"}

\* What each field of the default event decodes to.
ExpectedEvent ==
    [id |-> "f90b893ea04939d7456f30c54f68d7b4",
     name |-> "International Cat Day",
     url |-> "https://www.checkiday.com/f90b893ea04939d7456f30c54f68d7b4/international-cat-day",
     adult |-> FALSE,
     alternate_names |-> <<[name |-> "TEST", first_year |-> Some(2005), last_year |-> None]>>,
     hashtags |-> <<"InternationalCatDay", "CatDay">>,
     image |->
        [small |-> "https://static.checkiday.com/img/300/kittens-555822.jpg",
         medium |-> "https://static.checkiday.com/img/600/kittens-555822.jpg",
         large |-> "https://static.checkiday.com/img/1200/kittens-555822.jpg"],
     sources |-> <<"https://www.source.com/1", "https://www.source.org/2">>,
     description |->
        [text |-> Some("International Cat Day celebrates love for cats..."),
         html |-> Some("<p>International Cat Day celebrates love for cats...</p>"),
         markdown |-> Some("International Cat Day [celebrates](https://www.google.com) love for cats...")],
     how_to_observe |->
        [text |-> Some("Spend the day playing with your cat..."),
         html |-> Some("<p>Spend the day playing with your cat...</p>"),
         markdown |-> Some("Spend the day [playing](https://www.bing.com) with your cat...")],
     patterns |->
        <<[first_year |-> Some(2002), last_year |-> None,
           observed |-> "annually on August 8th",
           observed_html |-> "annually on <a>August 8th</a>",
           observed_markdown |-> "annually on [August 8th](https://www.checkiday.com/8/8)",
           length |-> 1]>>,
     occurrences |->
        <<[date |-> [variant |-> "Date", date |-> "08/08/2024", ts |-> ""], length |-> 1],
          [date |-> [variant |-> "Timestamp", date |-> "", ts |-> "1734772794"], length |-> 1],
          [date |-> [variant |-> "Timestamp", date |-> "", ts |-> "-12345"], length |-> 7]>>,
     founders |->
        <<[name |-> "International Fund For Animal Welfare",
           url |-> Some("https://www.ifaw.org/"), date |-> Some("2002")]>>,
     analytics |->
        [overall_rank |-> 12, social_rank |-> 34, social_shares |-> 56, popularity |-> "***.."],
     tags |-> <<[name |-> "A"], [name |-> "B"]>>]

\* C20: each optional group of an event-info body may be absent on its own:
\* the call succeeds for every choice of groups, an absent group decodes to
\* None, a present one to its value, and the other fields decode to the same
\* values whichever groups are there.
C20_GroupsIndependent ==
    \A c \in DOMAIN pc :
        GroupCase(c) =>
            /\ result[c].kind = "ok"
            /\ DOMAIN result[c].value.event = DOMAIN FullEvent
            /\ \A k \in DOMAIN FullEvent \ OptionalGroups :
                    result[c].value.event[k] = ExpectedEvent[k]
            /\ \A k \in OptionalGroups :
                    IF k \in PresentGroups(c)
                    THEN /\ result[c].value.event[k].some
                         /\ result[c].value.event[k].v = ExpectedEvent[k]
                    ELSE ~result[c].value.event[k].some

C20_Witness ==
    \E c \in DOMAIN pc :
        /\ GroupCase(c)
        /\ PresentGroups(c) = {"image", "occurrences", "tags"}
        /\ "hashtags" \notin DOMAIN wire[c].body.v.event.v
        /\ result[c].kind = "ok"
        /\ ~result[c].value.event.hashtags.some
        /\ result[c].value.event.image.some

\* The keys that are empty or hold a character no header value may hold.
BadKeys == {"", "abc\n123"}

\* The base URLs that are not absolute URLs.
BadUrls == {"derp"}

\* Nothing has gone to the network for any call.
NothingSent ==
    \A c \in DOMAIN pc : nsent[c] = 0 /\ sent[c].method = "" /\ wire[c].status = 0 /\ wire[c].error = ""

C22_FixedHeaders ==
    \A c \in DOMAIN pc :
        nsent[c] > 0 =>
            /\ sent[c].method = "GET"
            /\ sent[c].client \in Built
            /\ DOMAIN sent[c].headers = {"apikey", "x-platform-version"}
            /\ sent[c].headers["apikey"] = client[sent[c].client].api_key
            /\ sent[c].headers["apikey"] \notin BadKeys
            /\ sent[c].headers["x-platform-version"] = RustcVersion
            /\ sent[c].user_agent = "HolidayApiRust/" \o CargoPkgVersion

C22_Witness ==
    \E c \in DOMAIN pc :
        /\ nsent[c] = 1 /\ op[c] = "search" /\ sent[c].client = "k2"
        /\ sent[c].headers["apikey"] = "key2"
        /\ client["k1"].state = "ok" /\ client["k1"].api_key = "abc123"

\* The path of each base URL, with the slash that ends it.
BasePath(text) ==
    CASE text = "https://api.apilayer.com/checkiday/" -> "/checkiday/"
      [] text = "http://localhost" -> "/"
      [] text = "http://localhost/api" -> "/api/"
      [] text = "http://localhost/api/v1/?x=1" -> "/api/v1/"
      [] text = "mailto:a@b.c" -> "a@b.c/"

\* The path segment of each operation.
Segment(name) ==
    CASE name = "get_events" -> "events"
      [] name = "get_event_info" -> "event"
      [] name = "search" -> "search"

\* C25: for every base URL accepted at construction, an operation requests
\* the URL made of the full path of the base URL followed by the segment of
\* the operation, on the host of the base URL, with the encoded parameters as
\* its query.
C25_UrlIsBasePlusSegment ==
    \A c \in DOMAIN pc :
        /\ pc[c] # "panicked"
        /\ nsent[c] > 0 =>
            LET base == client[sent[c].client] IN
            /\ PathText(sent[c].url.path) = BasePath(base.base_text) \o Segment(op[c])
            /\ sent[c].url.host = base.base_url.host
            /\ sent[c].url.scheme = base.base_url.scheme
            /\ sent[c].path = Segment(op[c])
            /\ sent[c].url.query = [some |-> TRUE, v |-> sent[c].params]

\* The messages of an HTTP error with this status.
HttpMessages(status) ==
    {"MyError!"} \cup
    (CASE status = 401 -> {"Unauthorized"}
       [] status = 500 -> {"Internal Server Error"}
       [] status = 599 -> {"599"}
       [] OTHER -> {})

\* C24: the status is classified before the body is decoded into the response
\* shape: on a non-success status the call fails with an HTTP error, also
\* when the body is a valid response of the operation, no response is decoded
\* and the rate-limit headers sent with that status reach the caller nowhere.
C24_StatusBeforeBody ==
    \A c \in DOMAIN pc :
        /\ \A i \in StepsAt(c, "decode") \cup StepsAt(c, "decode_error") :
                \E j \in StepsAt(c, "status") : j < i
        /\ (wire[c].status # 0 /\ wire[c].status \notin 200..299) =>
            /\ headers[c] = <<>>
            /\ StepsAt(c, "decode") = {} /\ StepsAt(c, "set_rate_limit") = {}
            /\ pc[c] \in {"err_body", "done"}
            /\ pc[c] = "done" =>
                /\ result[c].kind = "err" /\ result[c].value = JNull
                /\ result[c].err \in HttpMessages(wire[c].status)

C24_Witness ==
    \E c \in DOMAIN pc :
        /\ pc[c] = "done" /\ op[c] = "get_events" /\ wire[c].status = 401
        /\ wire[c].body.t = "obj" /\ wire[c].body = EventsBody
        /\ wire[c].lines = <<[name |-> "x-ratelimit-limit-month", value |-> <<"1", "0", "0">>]>>
        /\ result[c] = Err("Unauthorized")

\* The call in slot c is between two of its steps: it has started and has
\* neither returned nor panicked.
Suspended(c) == pc[c] \notin {"idle", "done", "panicked"}

\* C26 as stated: a call is suspended at one point only, after it issued its
\* request and before anything of the response has arrived.
C26_OneSuspensionPoint ==
    \A c \in DOMAIN pc :
        Suspended(c) =>
            /\ pc[c] = "send" /\ nsent[c] = 1
            /\ wire[c].status = 0 /\ wire[c].body.t = "null"

\* C26, amended: a call is suspended at two points, both waiting for the
\* network: for the head of the response, after the request was issued, and
\* for its body, after the status was classified. At no other point is it
\* suspended: validation, encoding, decoding and the attachment of the rate
\* limit each run to the next of these points or to the return.
C26_TwoSuspensionPoints ==
    \A c \in DOMAIN pc :
        /\ Suspended(c) =>
            /\ nsent[c] = 1 /\ result[c] = NoResult /\ wire[c].body.t = "null"
            /\ \/ /\ pc[c] = "send" /\ wire[c].status = 0
                  /\ steps[c][Len(steps[c])] \in {"send", "redirect"}
               \/ /\ pc[c] \in {"err_body", "ok_body"} /\ wire[c].status # 0
                  /\ steps[c][Len(steps[c])] = "status"
                  /\ (pc[c] = "ok_body") = (wire[c].status \in 200..299)
        /\ pc[c] = "done" =>
            /\ result[c].kind \in {"ok", "err"}
            /\ steps[c][Len(steps[c])] = "return"

C26_Witness ==
    \E c \in DOMAIN pc :
        /\ pc[c] = "ok_body" /\ op[c] = "search" /\ nsent[c] = 1
        /\ wire[c].status = 200 /\ wire[c].body.t = "null"
        /\ steps[c] = <<"send", "status">>

\* What a call of the operation with this request and this answer returns
\* when it is the only call of its client.
Alone(name, request, answer) ==
    IF name = "get_event_info" /\ request.id = "" THEN Err("Event id is required.")
    ELSE IF name = "search" /\ request.query = "" THEN Err("Search query is required.")
    ELSE IF answer.error # "" THEN Err(TransportError(answer.error))
    ELSE IF ~IsSuccess(answer.status)
    THEN Err(HttpError(answer.status, DecodeStringMap(answer.body)))
    ELSE LET json == DecodeResponse(name, answer.body) IN
         IF json.ok THEN Ok(SetRateLimit(json.v, RateLimitOf(HeaderMap(answer.lines))))
         ELSE Err(ParseError(JsonError(json.diag)))

\* The step changes nothing of the call in slot d.
Untouched(d) ==
    /\ pc'[d] = pc[d] /\ op'[d] = op[d] /\ req'[d] = req[d] /\ sent'[d] = sent[d]
    /\ nsent'[d] = nsent[d] /\ wire'[d] = wire[d] /\ headers'[d] = headers[d]
    /\ result'[d] = result[d] /\ steps'[d] = steps[d]

\* C23: calls running concurrently on one client do not interfere: no step of
\* a call, successful or failing, changes the client's base URL and headers
\* or anything of another call, and under every interleaving the result of a
\* call is the one it has alone, a function of its own request and of the
\* answer it received.
C23_NoInterference ==
    [][/\ client' = client
       /\ \E c \in DOMAIN pc : \A d \in DOMAIN pc \ {c} : Untouched(d)
       /\ \A c \in DOMAIN pc :
            pc'[c] = "done" => result'[c] = Alone(op'[c], req'[c], wire'[c])]_vars

C23_Witness ==
    /\ pc["a"] = "done" /\ op["a"] = "get_events" /\ wire["a"].status = 401
    /\ wire["a"].lines = <<>> /\ result["a"] = Err("MyError!")
    /\ pc["b"] = "done" /\ op["b"] = "search" /\ wire["b"].status = 200
    /\ result["b"].kind = "ok"
    /\ result["b"].value.rate_limit = [limit_month |-> 100, remaining_month |-> 88]
    /\ steps["a"] = <<"send", "status", "decode_error", "return">>
    /\ client["k1"].headers["apikey"] = "abc123"

====
